---- MODULE Spec2Model ----
(***************************************************************************)
(* Model of the missed-call / voicemail / SMS coordination of the          *)
(* TradeAssist back end (express handlers /call-status, /voicemail, /sms   *)
(* and the no-voicemail grace timer).                                      *)
(*                                                                         *)
(* JavaScript objects are modelled by reference: `heap` holds the          *)
(* conversation objects and `sets` the handledCalls Set objects, so that   *)
(* a spread copy ({...convo}) shares the Set of the object it copies and   *)
(* an assignment through a captured reference (convo.step = ...) is seen   *)
(* by every holder of that reference.  A handler runs atomically up to its *)
(* next await; each await is one position (pc) of a task.                  *)
(***************************************************************************)
EXTENDS Integers, Sequences, FiniteSets, Bags, TLC

\* ------------------------------------------------------------------ bounds
\* webhook deliveries in one run
MaxEvents == 3
\* collaborator failures (send, model call, transcription, insert) in one run
MaxFailures == 1

\* ------------------------------------------------------------------ inputs
CallSids == {"CA1", "CA2"}
CallStatuses == {"busy", "no-answer", "completed", "ringing"}
RecordingUrls == {"", "rec"}
RecordingSids == {"", "RE1"}

Digits == {"0", "1", "2", "3", "4", "5", "6", "7", "8", "9"}

\* raw From values of the webhooks, as sequences of characters
RawMobile == <<"0", "4", "1", "2", " ", "3", "4", "5", "6", "7", "8">>
RawShort == <<"0", "4", "1", "2">>
RawMissing == <<>>
\* a second caller, reported in international form
RawOther == <<"+", "6", "1", "4", "9", "9", "3", "4", "5", "6", "7", "8">>
RawFroms == {RawMobile, RawMissing}

\* -------------------------------------------------------- phone helpers
StartsWith(s, p) ==
  /\ Len(s) >= Len(p)
  /\ SubSeq(s, 1, Len(p)) = p

IsDigit(ch) == ch \in Digits

\* formatPhone(phone): '' for a missing value, else the digits with the
\* national 0 replaced by +61, a leading 61 prefixed with +, a value that
\* already starts with + passed through, and + prepended otherwise
formatPhone(phone) ==
  IF phone = <<>> THEN <<>>
  ELSE LET cleaned == SelectSeq(phone, IsDigit)
       IN IF StartsWith(cleaned, <<"0">>) THEN <<"+", "6", "1">> \o Tail(cleaned)
          ELSE IF StartsWith(cleaned, <<"6", "1">>) THEN <<"+">> \o cleaned
          ELSE IF StartsWith(phone, <<"+">>) THEN phone
          ELSE <<"+">> \o cleaned

\* the pattern without its end anchor: /^\+61[0-9]{9}/
MutisValidAUSMobileUnanchored(phone) ==
  /\ Len(phone) >= 12
  /\ SubSeq(phone, 1, 3) = <<"+", "6", "1">>
  /\ \A i \in 4..12 : phone[i] \in Digits

\* isValidAUSMobile(phone): /^\+61[0-9]{9}$/
isValidAUSMobile(phone) ==
  /\ Len(phone) = 12
  /\ SubSeq(phone, 1, 3) = <<"+", "6", "1">>
  /\ \A i \in 4..12 : phone[i] \in Digits

\* the keys the conversation table can get in this model
\* the same subscriber as RawMobile, written in other ways
RawBare61 == <<"6", "1", "4", "1", "2", "3", "4", "5", "6", "7", "8">>
RawPlus61 == <<"+", "6", "1", " ", "4", "1", "2", " ", "3", "4", "5", " ", "6", "7", "8">>
RawSubscriber == <<"4", "1", "2", "3", "4", "5", "6", "7", "8">>
SameSubscriber == {RawMobile, RawBare61, RawPlus61, RawSubscriber}

\* numbers that are no Australian mobile numbers
RawLong == <<"0", "4", "1", "2", "3", "4", "5", "6", "7", "8", "9">>
RawForeign == <<"+", "6", "2", "4", "1", "2", "3", "4", "5", "6", "7", "8">>
RawSpaced == <<"+", "1", " ", "4", "1", "2", "3", "4", "5", "6", "7", "8">>

\* the phone values of the onboarding requests
RawPhones == SameSubscriber \cup {RawOther, RawShort, RawLong, RawForeign, RawSpaced, RawMissing}

Froms == {formatPhone(r) : r \in RawFroms \cup {RawShort, RawOther}} \ {<<>>}

TRADIE == <<"t", "r", "a", "d", "i", "e">>

\* --------------------------------------------------------------- objects
\* a field that was never assigned reads as undefined
Undefined == "undefined"

\* {} : an object with no field set; handledCalls = 0 is "no Set"
EmptyConvo ==
  [step |-> Undefined, type |-> Undefined, transcription |-> Undefined,
   tradie_notified |-> Undefined, ai_followup_sent |-> Undefined,
   customer_info |-> <<>>, handledCalls |-> 0]

\* the step the call-status handler and the grace timer store
FollowupStep == "voicemail_followup_sent"

\* the type is set to that of a missed call as well
MutSpreadFollowupRetyped(convo) ==
  [convo EXCEPT !.step = FollowupStep, !.type = "missed_call_no_voicemail"]

\* { ...convo, step: 'voicemail_followup_sent' }
SpreadFollowup(convo) == [convo EXCEPT !.step = FollowupStep]

VARIABLES
  conversations,      \* from -> reference into heap, 0 when absent
  heap,               \* conversation objects, by reference
  sets,               \* handledCalls Set objects, by reference
  pendingVoicemails,  \* Set of CallSids with a recording reported
  pendingNoVoicemail, \* Map CallSid -> timeout handle, 0 when absent
  tasks,              \* suspended handlers and timers
  events,             \* webhooks still to be delivered in this run
  failures,           \* collaborator failures still to happen in this run
  sent,               \* bag of messages accepted by the messaging channel
  messages,           \* bag of rows in the messages table
  bookings,           \* bag of rows in the bookings table
  responses           \* bag of HTTP responses given

vars == <<conversations, heap, sets, pendingVoicemails, pendingNoVoicemail,
          tasks, events, failures, sent, messages, bookings, responses>>

store == <<conversations, heap, sets>>
tracker == <<pendingVoicemails, pendingNoVoicemail>>
outputs == <<sent, messages, bookings>>


\* ------------------------------------------------------------- helpers
\* no customer_info / no extraction result
NoInfo == [name |-> Undefined, intent |-> Undefined, description |-> <<>>]
\* the details text: the description, and the transcription when appended
NoDetails == [description |-> <<>>, voicemail |-> ""]
\* null as a proposed time
NullTime == [src |-> "null", minutes |-> 0]

\* a suspended handler or timer with its local variables
Task(id, kind, pc, from, CallSid, convo) ==
  [id |-> id, kind |-> kind, pc |-> pc, from |-> from, CallSid |-> CallSid,
   convo |-> convo, text |-> "", body |-> <<>>, info |-> NoInfo,
   details |-> NoDetails, time |-> NullTime]

\* client.messages.create({ body, to }) accepted by the channel
Msg(to, kind, CallSid, text) ==
  [to |-> to, kind |-> kind, CallSid |-> CallSid, text |-> text,
   info |-> NoInfo, details |-> NoDetails, time |-> NullTime]

\* a row of the messages table
MessageRow(from, type, content, transcription, info, details) ==
  [from_number |-> from, type |-> type, content |-> content,
   transcription |-> transcription, customer_name |-> info.name,
   intent |-> info.intent, details |-> details]

Deliver(m) == sent (+) SetToBag({m})

\* res.status(code).send(text)
Respond(route, CallSid, code, text) ==
  responses (+) SetToBag({[route |-> route, CallSid |-> CallSid, code |-> code, text |-> text]})

\* a handle no task and no Map entry uses
NewId ==
  LET used == {t.id : t \in tasks} \cup {pendingNoVoicemail[c] : c \in DOMAIN pendingNoVoicemail}
  IN CHOOSE n \in 1..(Cardinality(used) + 1) : n \notin used

\* clearTimeout(handle): a timer that has not fired yet never fires
clearTimeout(ts, handle) == {t \in ts : ~(t.id = handle /\ t.pc = "armed")}

\* the Map without the entry of CallSid
MapDelete(map, CallSid) == [map EXCEPT ![CallSid] = 0]

\* handledCalls.has(CallSid)
Has(set, CallSid) == CallSid \in set

\* RecordingUrl && RecordingUrl.trim() !== ''
HasRecordingUrl(RecordingUrl) == RecordingUrl # ""

\* the object is stored under every key of the table
MutStoreAtEveryKey(from, ref) == [f \in DOMAIN conversations |-> ref]

\* conversations[from] = <the object at ref>
StoreAt(from, ref) == [conversations EXCEPT ![from] = ref]

TranscriptionNone == "[No voicemail left]"

Init ==
  /\ conversations = [f \in Froms |-> 0]
  /\ heap = <<>>
  /\ sets = <<>>
  /\ pendingVoicemails = {}
  /\ pendingNoVoicemail = [c \in CallSids |-> 0]
  /\ tasks = {}
  /\ events = MaxEvents
  /\ failures = MaxFailures
  /\ sent = EmptyBag
  /\ messages = EmptyBag
  /\ bookings = EmptyBag
  /\ responses = EmptyBag

\* ------------------------------------------------- POST /call-status
\* The synchronous part of the handler, up to its first await or return.
CallStatusRoute(rawFrom, CallStatus, CallSid, RecordingUrl) ==
  /\ events > 0
  /\ events' = events - 1
  /\ UNCHANGED <<failures, outputs>>
  /\ LET from == formatPhone(rawFrom) IN
     IF from = <<>>
     THEN /\ responses' = Respond("call-status", CallSid, 400, "Missing caller number")
          /\ UNCHANGED <<store, tracker, tasks>>
     ELSE
      LET stored == conversations[from]
          fresh == stored = 0
          \* if (!convo.handledCalls) convo.handledCalls = new Set()
          needSet == fresh \/ heap[stored].handledCalls = 0
          sets1 == IF needSet THEN Append(sets, {}) ELSE sets
          setRef == IF needSet THEN Len(sets) + 1 ELSE heap[stored].handledCalls
          heap1 == IF ~fresh /\ needSet
                   THEN [heap EXCEPT ![stored].handledCalls = setRef]
                   ELSE heap
          convo == IF fresh THEN [EmptyConvo EXCEPT !.handledCalls = setRef]
                   ELSE heap1[stored]
          \* what a return without any use of a fresh convo leaves behind
          setsKept == IF fresh THEN sets ELSE sets1
      IN
      IF CallStatus = "completed" /\ HasRecordingUrl(RecordingUrl)
      THEN \* voicemail already present
           /\ pendingVoicemails' = pendingVoicemails \cup {CallSid}
           /\ IF pendingNoVoicemail[CallSid] # 0
              THEN /\ tasks' = clearTimeout(tasks, pendingNoVoicemail[CallSid])
                   /\ pendingNoVoicemail' = MapDelete(pendingNoVoicemail, CallSid)
              ELSE UNCHANGED <<tasks, pendingNoVoicemail>>
           /\ heap' = heap1
           /\ sets' = setsKept
           /\ responses' = Respond("call-status", CallSid, 200,
                                   "Voicemail detected, waiting for transcription")
           /\ UNCHANGED conversations
      ELSE IF CallStatus = "completed"
      THEN \* completed call with no RecordingUrl
           IF Has(sets1[setRef], CallSid) \/ pendingNoVoicemail[CallSid] # 0
           THEN /\ heap' = heap1
                /\ sets' = setsKept
                /\ responses' = Respond("call-status", CallSid, 200, "Follow-up already scheduled")
                /\ UNCHANGED <<conversations, tracker, tasks>>
           ELSE \* setTimeout(async () => {...}, 15000): the closure keeps convo
                LET heap2 == IF fresh THEN Append(heap1, convo) ELSE heap1
                    ref == IF fresh THEN Len(heap1) + 1 ELSE stored
                IN /\ heap' = heap2
                   /\ sets' = sets1
                   /\ tasks' = tasks \cup
                        {Task(NewId, "timer", "armed", from, CallSid, ref)}
                   /\ pendingNoVoicemail' = [pendingNoVoicemail EXCEPT ![CallSid] = NewId]
                   /\ responses' = Respond("call-status", CallSid, 200, "Scheduled wait for voicemail")
                   /\ UNCHANGED <<conversations, pendingVoicemails>>
      ELSE IF CallStatus \in {"no-answer", "busy"} /\ ~Has(sets1[setRef], CallSid)
      THEN \* busy / no-answer, not handled yet
           /\ sets' = [sets1 EXCEPT ![setRef] = @ \cup {CallSid}]
           /\ heap' = Append(heap1, SpreadFollowup(convo))
           /\ conversations' = StoreAt(from, Len(heap1) + 1)
           /\ tasks' = tasks \cup
                {Task(NewId, "call-status", "cs_owner", from, CallSid, 0)}
           /\ UNCHANGED <<tracker, responses>>
      ELSE /\ heap' = heap1
           /\ sets' = setsKept
           /\ responses' = Respond("call-status", CallSid, 200, "Call status processed")
           /\ UNCHANGED <<conversations, tracker, tasks>>

\* A collaborator call that is awaited resolves or rejects; a rejection
\* counts against MaxFailures.
Outcome(ok) ==
  IF ok THEN failures' = failures
  ELSE /\ failures > 0
       /\ failures' = failures - 1

Finish(t) == tasks' = tasks \ {t}

Goto(t, pc) == tasks' = (tasks \ {t}) \cup {[t EXCEPT !.pc = pc]}

\* await client.messages.create (owner) in the busy / no-answer branch
CallStatusOwnerSend(t, ok) ==
  /\ t.kind = "call-status" /\ t.pc = "cs_owner"
  /\ Outcome(ok)
  /\ IF ok
     THEN /\ sent' = Deliver(Msg(TRADIE, "missed_owner", t.CallSid, ""))
          /\ Goto(t, "cs_gpt")
          /\ UNCHANGED responses
     ELSE \* catch (err): logged, then the final response
          /\ Finish(t)
          /\ responses' = Respond("call-status", t.CallSid, 200, "Call status processed")
          /\ UNCHANGED sent
  /\ UNCHANGED <<store, tracker, events, messages, bookings>>

\* await openai.chat.completions.create in the busy / no-answer branch:
\* a reply, an empty reply, or a rejection
CallStatusCompletion(t, reply) ==
  /\ t.kind = "call-status" /\ t.pc = "cs_gpt"
  /\ Outcome(reply = "reply")
  /\ IF reply = "reply" /\ isValidAUSMobile(t.from)
     THEN /\ Goto(t, "cs_caller")
          /\ UNCHANGED responses
     ELSE /\ Finish(t)
          /\ responses' = Respond("call-status", t.CallSid, 200,
               IF reply = "throw" THEN "Call status processed"
               ELSE "AI follow-up sent for busy/no-answer")
  /\ UNCHANGED <<store, tracker, events, outputs>>

\* await client.messages.create (caller) in the busy / no-answer branch
CallStatusCallerSend(t, ok) ==
  /\ t.kind = "call-status" /\ t.pc = "cs_caller"
  /\ Outcome(ok)
  /\ sent' = IF ok THEN Deliver(Msg(t.from, "missed_followup", t.CallSid, ""))
             ELSE sent
  /\ Finish(t)
  /\ responses' = Respond("call-status", t.CallSid, 200,
       IF ok THEN "AI follow-up sent for busy/no-answer" ELSE "Call status processed")
  /\ UNCHANGED <<store, tracker, events, messages, bookings>>

\* ------------------------------------- the no-voicemail grace timer
\* The timeout fires: the callback's synchronous part.
TimerFire(t) ==
  /\ t.kind = "timer" /\ t.pc = "armed"
  /\ IF ~Has(pendingVoicemails, t.CallSid)
     THEN LET convo == heap[t.convo]
          IN /\ sets' = [sets EXCEPT ![convo.handledCalls] = @ \cup {t.CallSid}]
             /\ heap' = Append(heap, SpreadFollowup(convo))
             /\ conversations' = StoreAt(t.from, Len(heap) + 1)
             /\ Goto(t, "t_owner")
             /\ UNCHANGED pendingNoVoicemail
     ELSE /\ pendingNoVoicemail' = MapDelete(pendingNoVoicemail, t.CallSid)
          /\ Finish(t)
          /\ UNCHANGED store
  /\ UNCHANGED <<pendingVoicemails, events, failures, outputs, responses>>

\* await client.messages.create (owner) in the callback; a rejection ends
\* the callback before pendingNoVoicemail.delete
TimerOwnerSend(t, ok) ==
  /\ t.kind = "timer" /\ t.pc = "t_owner"
  /\ Outcome(ok)
  /\ IF ok
     THEN /\ sent' = Deliver(Msg(TRADIE, "missed_owner", t.CallSid, ""))
          /\ Goto(t, "t_gpt")
     ELSE /\ Finish(t)
          /\ UNCHANGED sent
  /\ UNCHANGED <<store, tracker, events, messages, bookings, responses>>

TimerCompletion(t, reply) ==
  /\ t.kind = "timer" /\ t.pc = "t_gpt"
  /\ Outcome(reply = "reply")
  /\ IF reply = "reply" /\ isValidAUSMobile(t.from)
     THEN /\ Goto(t, "t_caller")
          /\ UNCHANGED pendingNoVoicemail
     ELSE /\ Finish(t)
          /\ pendingNoVoicemail' =
               IF reply = "throw" THEN pendingNoVoicemail
               ELSE MapDelete(pendingNoVoicemail, t.CallSid)
  /\ UNCHANGED <<store, pendingVoicemails, events, outputs, responses>>

TimerCallerSend(t, ok) ==
  /\ t.kind = "timer" /\ t.pc = "t_caller"
  /\ Outcome(ok)
  /\ sent' = IF ok THEN Deliver(Msg(t.from, "missed_followup", t.CallSid, ""))
             ELSE sent
  /\ pendingNoVoicemail' =
       IF ok THEN MapDelete(pendingNoVoicemail, t.CallSid) ELSE pendingNoVoicemail
  /\ Finish(t)
  /\ UNCHANGED <<store, pendingVoicemails, events, messages, bookings, responses>>

\* ---------------------------------------------------- POST /voicemail
TranscriptionUnavailable == "[Unavailable]"
\* what transcribeRecording resolves with
Transcripts == {"leaking tap"}

\* convo.ai_followup_sent || false
OrFalse(flag) == IF flag = "true" THEN "true" ELSE "false"

\* { ...convo, transcription, type: 'voicemail', tradie_notified: true,
\*   ai_followup_sent: convo.ai_followup_sent || false }
VoicemailConvo(convo, transcription) ==
  [convo EXCEPT !.transcription = transcription, !.type = "voicemail",
                !.tradie_notified = "true",
                !.ai_followup_sent = OrFalse(convo.ai_followup_sent)]

\* a recording is taken to be there whatever RecordingSid says
MutNoRecordingSidNever(RecordingSid) == FALSE

\* !RecordingSid
NoRecordingSid(RecordingSid) == RecordingSid = ""

\* The synchronous part: validation, then the pending timeout is cleared
\* and transcribeRecording is awaited.
VoicemailRoute(rawFrom, CallSid, RecordingSid) ==
  /\ events > 0
  /\ events' = events - 1
  /\ UNCHANGED <<store, pendingVoicemails, failures, outputs>>
  /\ LET from == formatPhone(rawFrom) IN
     IF from = <<>>
     THEN /\ responses' = Respond("voicemail", CallSid, 400, "Missing caller number")
          /\ UNCHANGED <<pendingNoVoicemail, tasks>>
     ELSE IF NoRecordingSid(RecordingSid)
     THEN /\ responses' = Respond("voicemail", CallSid, 200, "No recording to process")
          /\ UNCHANGED <<pendingNoVoicemail, tasks>>
     ELSE LET cleared == IF pendingNoVoicemail[CallSid] # 0
                         THEN clearTimeout(tasks, pendingNoVoicemail[CallSid])
                         ELSE tasks
          IN /\ pendingNoVoicemail' = MapDelete(pendingNoVoicemail, CallSid)
             /\ tasks' = cleared \cup
                  {Task(NewId, "voicemail", "vm_transcribe", from, CallSid, 0)}
             /\ UNCHANGED responses

\* the transcription is whatever the call left, the empty text of a
\* rejection included
MutTranscriptionAsResolved(text) == text

\* let transcription = '[Unavailable]'; try { transcription = await
\* transcribeRecording(...) } catch: text = "" stands for a rejection
Transcription(text) == IF text # "" THEN text ELSE TranscriptionUnavailable

\* transcribeRecording resolved (text) or rejected (text = ""): the
\* conversation is saved and the owner notification is awaited
VoicemailTranscribed(t, text) ==
  /\ t.kind = "voicemail" /\ t.pc = "vm_transcribe"
  /\ Outcome(text # "")
  /\ LET transcription == Transcription(text)
         stored == conversations[t.from]
         convo == IF stored = 0 THEN EmptyConvo ELSE heap[stored]
     IN /\ heap' = Append(heap, VoicemailConvo(convo, transcription))
        /\ conversations' = StoreAt(t.from, Len(heap) + 1)
        /\ tasks' = (tasks \ {t}) \cup
                      {[t EXCEPT !.pc = "vm_owner", !.text = transcription]}
  /\ UNCHANGED <<sets, tracker, events, outputs, responses>>

VoicemailFailed(t) ==
  /\ Finish(t)
  /\ responses' = Respond("voicemail", t.CallSid, 500, "Failed voicemail handling")

VoicemailOwnerSend(t, ok) ==
  /\ t.kind = "voicemail" /\ t.pc = "vm_owner"
  /\ Outcome(ok)
  /\ IF ok
     THEN /\ sent' = Deliver(Msg(TRADIE, "voicemail_owner", t.CallSid, t.text))
          /\ Goto(t, "vm_insert")
          /\ UNCHANGED responses
     ELSE /\ VoicemailFailed(t)
          /\ UNCHANGED sent
  /\ UNCHANGED <<store, tracker, events, messages, bookings>>

\* await supabase.from('messages').insert: the row is stored, the client
\* resolves with an error, or the call rejects.  Then
\* if (!conversations[from].ai_followup_sent) the completion is requested.
VoicemailInsert(t, result) ==
  /\ t.kind = "voicemail" /\ t.pc = "vm_insert"
  /\ Outcome(result = "ok")
  /\ messages' = IF result = "ok"
                 THEN messages (+) SetToBag({MessageRow(t.from, "voicemail", <<>>,
                                                          t.text, NoInfo, NoDetails)})
                 ELSE messages
  /\ IF result = "throw"
     THEN VoicemailFailed(t)
     ELSE IF heap[conversations[t.from]].ai_followup_sent # "true"
     THEN /\ Goto(t, "vm_gpt")
          /\ UNCHANGED responses
     ELSE /\ Finish(t)
          /\ responses' = Respond("voicemail", t.CallSid, 200, "Voicemail processed and tradie notified")
  /\ UNCHANGED <<store, tracker, events, sent, bookings>>

\* conversations[from].ai_followup_sent = true, on the object stored now
MarkFollowupSent(from) ==
  heap' = [heap EXCEPT ![conversations[from]].ai_followup_sent = "true"]

VoicemailCompletion(t, reply) ==
  /\ t.kind = "voicemail" /\ t.pc = "vm_gpt"
  /\ Outcome(reply = "reply")
  /\ IF reply = "throw"
     THEN /\ VoicemailFailed(t)
          /\ UNCHANGED heap
     ELSE IF reply = "reply" /\ isValidAUSMobile(t.from)
     THEN /\ Goto(t, "vm_caller")
          /\ UNCHANGED <<heap, responses>>
     ELSE /\ MarkFollowupSent(t.from)
          /\ Finish(t)
          /\ responses' = Respond("voicemail", t.CallSid, 200, "Voicemail processed and tradie notified")
  /\ UNCHANGED <<conversations, sets, tracker, events, outputs>>

VoicemailCallerSend(t, ok) ==
  /\ t.kind = "voicemail" /\ t.pc = "vm_caller"
  /\ Outcome(ok)
  /\ IF ok
     THEN /\ sent' = Deliver(Msg(t.from, "voicemail_followup", t.CallSid, ""))
          /\ MarkFollowupSent(t.from)
          /\ Finish(t)
          /\ responses' = Respond("voicemail", t.CallSid, 200, "Voicemail processed and tradie notified")
     ELSE /\ VoicemailFailed(t)
          /\ UNCHANGED <<sent, heap>>
  /\ UNCHANGED <<conversations, sets, tracker, events, messages, bookings>>

\* ------------------------------------------------------------ parseTime
Whitespace == {" "}

ToLower(ch) ==
  CASE ch = "A" -> "a" [] ch = "P" -> "p" [] ch = "M" -> "m" [] OTHER -> ch

toLowerCase(text) == [i \in 1..Len(text) |-> ToLower(text[i])]

DigitValue(ch) ==
  CASE ch = "0" -> 0 [] ch = "1" -> 1 [] ch = "2" -> 2 [] ch = "3" -> 3
    [] ch = "4" -> 4 [] ch = "5" -> 5 [] ch = "6" -> 6 [] ch = "7" -> 7
    [] ch = "8" -> 8 [] ch = "9" -> 9

\* String.prototype.trim
RECURSIVE trim(_)
trim(text) ==
  IF text = <<>> THEN <<>>
  ELSE IF Head(text) \in Whitespace THEN trim(Tail(text))
  ELSE IF text[Len(text)] \in Whitespace THEN trim(SubSeq(text, 1, Len(text) - 1))
  ELSE text

\* no text matches
MutTimeMatchNever(lower) == [found |-> FALSE, hour |-> 0, minutes |-> 0, ampm |-> ""]

\* lower.match(/(\d{1,2})(?::(\d{2}))?\s*(am|pm)?/): the leftmost match;
\* [found, hour, minutes, ampm], hour and minutes already parseInt'ed and
\* minutes 0 without the :MM group
TimeMatch(lower) ==
  LET n == Len(lower)
      digitAt(i) == i <= n /\ lower[i] \in Digits
      starts == {i \in 1..n : digitAt(i)}
  IN IF starts = {} THEN [found |-> FALSE, hour |-> 0, minutes |-> 0, ampm |-> ""]
     ELSE
      LET i == CHOOSE k \in starts : \A j \in starts : k <= j
          hourEnd == IF digitAt(i + 1) THEN i + 1 ELSE i
          hour == IF hourEnd = i THEN DigitValue(lower[i])
                  ELSE 10 * DigitValue(lower[i]) + DigitValue(lower[i + 1])
          hasMin == /\ hourEnd + 3 <= n
                    /\ lower[hourEnd + 1] = ":"
                    /\ digitAt(hourEnd + 2) /\ digitAt(hourEnd + 3)
          minEnd == IF hasMin THEN hourEnd + 3 ELSE hourEnd
          minutes == IF hasMin
                     THEN 10 * DigitValue(lower[hourEnd + 2]) + DigitValue(lower[hourEnd + 3])
                     ELSE 0
          wsEnd == CHOOSE j \in minEnd..n :
                     /\ \A k \in (minEnd + 1)..j : lower[k] \in Whitespace
                     /\ (j = n \/ lower[j + 1] \notin Whitespace)
          ampm == IF wsEnd + 2 <= n /\ lower[wsEnd + 1] \in {"a", "p"} /\ lower[wsEnd + 2] = "m"
                  THEN IF lower[wsEnd + 1] = "a" THEN "am" ELSE "pm"
                  ELSE ""
      IN [found |-> TRUE, hour |-> hour, minutes |-> minutes, ampm |-> ampm]

\* the am/pm rules without the afternoon assumption
MutNormalHourNoAfternoon(hour, ampm) ==
  IF ampm = "pm" /\ hour < 12 THEN hour + 12
  ELSE IF ampm = "am" /\ hour = 12 THEN 0 ELSE hour

\* the hour as written, am or pm ignored
MutNormalHourAsWritten(hour, ampm) == hour

\* the hour after the am/pm rules and the afternoon assumption
NormalHour(hour, ampm) ==
  LET h1 == IF ampm = "pm" /\ hour < 12 THEN hour + 12 ELSE hour
      h2 == IF ampm = "am" /\ h1 = 12 THEN 0 ELSE h1
  IN IF ampm = "" /\ h2 >= 1 /\ h2 <= 12 /\ h2 < 8 THEN h2 + 12 ELSE h2

MinutesPerDay == 1440

\* the time is never taken to be in the past
MutPastNever(d, now) == FALSE

\* d < now, d at second 0 of minute d of the reference day
Past(d, now) == d * 60 < now.minutes * 60 + now.seconds

\* parseTime(text) at the clock reading now = [minutes, seconds] of the
\* reference day: minutes from the reference day's midnight of the Date
\* returned, or NullTime
parseTime(text, now) ==
  IF text = <<>> THEN NullTime
  ELSE LET m == TimeMatch(toLowerCase(text))
       IN IF ~m.found THEN NullTime
          ELSE LET d == NormalHour(m.hour, m.ampm) * 60 + m.minutes
                   past == Past(d, now)
               IN [src |-> "parseTime",
                   minutes |-> IF past THEN d + MinutesPerDay ELSE d]

\* clock readings at which an SMS is handled
Nows == {[minutes |-> 540, seconds |-> 0], [minutes |-> 900, seconds |-> 30]}

\* ------------------------------------------------ parseNameAndIntent
\* what the model's JSON answer parses to
ExtractedInfo == [name |-> "Sam", intent |-> "plumbing issue",
                  description |-> <<"l", "e", "a", "k">>]

\* the catch branch: { name: 'Customer', intent: 'other', description: text }
FallbackInfo(text) == [name |-> "Customer", intent |-> "other", description |-> text]

\* the answer of the model is never used
MutparseNameAndIntentFallback(text, parsed) == FallbackInfo(text)

parseNameAndIntent(text, parsed) == IF parsed THEN ExtractedInfo ELSE FallbackInfo(text)

\* ---------------------------------------------------------- POST /sms
\* { step: 'new', tradie_notified: false, type: 'missed_call_no_voicemail' }
DefaultConvo ==
  [EmptyConvo EXCEPT !.step = "new", !.tradie_notified = "false",
                     !.type = "missed_call_no_voicemail"]

\* a string that is not empty and not undefined
Truthy(str) == str # Undefined /\ str # ""

\* the transcription is never appended
MutDetailsTextNoTranscription(info, convo) ==
  [description |-> IF info.description = Undefined THEN <<>> ELSE info.description,
   voicemail |-> ""]

\* detailsText: info.description, with the transcription appended for a
\* voicemail conversation
DetailsText(info, convo) ==
  [description |-> IF info.description = Undefined THEN <<>> ELSE info.description,
   voicemail |-> IF convo.type = "voicemail" /\ Truthy(convo.transcription)
                 THEN convo.transcription ELSE ""]

SmsMsg(to, kind, text, info, details, time) ==
  [Msg(to, kind, "", text) EXCEPT !.info = info, !.details = details, !.time = time]

\* finally { conversations[from] = convo }
Finally(t) ==
  /\ conversations' = StoreAt(t.from, t.convo)
  /\ Finish(t)

\* only a missing caller number is looked for
MutMissingSmsDataFromOnly(from, body) == from = <<>>

\* !from || !body
MissingSmsData(from, body) == from = <<>> \/ body = <<>>

\* Validation, the read of the conversation, the immediate response, and
\* the async body up to its first await.
SmsRoute(rawFrom, Body, now) ==
  /\ events > 0
  /\ events' = events - 1
  /\ UNCHANGED <<sets, tracker, failures, outputs>>
  /\ LET from == formatPhone(rawFrom)
         body == trim(Body)
     IN
     IF MissingSmsData(from, body)
     THEN /\ responses' = Respond("sms", "", 400, "Missing SMS data")
          /\ UNCHANGED <<conversations, heap, tasks>>
     ELSE
      LET stored == conversations[from]
          heap1 == IF stored = 0 THEN Append(heap, DefaultConvo) ELSE heap
          ref == IF stored = 0 THEN Len(heap) + 1 ELSE stored
          convo == heap1[ref]
          t == [Task(NewId, "sms", "", from, "", ref) EXCEPT !.body = body]
          proposedTime == parseTime(body, now)
      IN
      /\ responses' = Respond("sms", "", 200, "<Response></Response>")
      /\ heap' = heap1
      /\ IF convo.step = "awaiting_details"
         THEN \* await parseNameAndIntent(body)
              /\ tasks' = tasks \cup {[t EXCEPT !.pc = "sms_extract"]}
              /\ UNCHANGED conversations
         ELSE IF convo.step = "scheduling" /\ proposedTime = NullTime
         THEN \* await openai...create: extract a call time
              /\ tasks' = tasks \cup {[t EXCEPT !.pc = "sms_time_gpt"]}
              /\ UNCHANGED conversations
         ELSE IF convo.step = "scheduling" /\ convo.customer_info # <<>>
         THEN \* await client.messages.create: booking confirmed
              /\ tasks' = tasks \cup
                   {[t EXCEPT !.pc = "sms_booking_owner", !.time = proposedTime,
                              !.info = convo.customer_info[1]]}
              /\ UNCHANGED conversations
         ELSE \* no branch taken, or convo.customer_info.name threw: finally
              /\ conversations' = StoreAt(from, ref)
              /\ UNCHANGED <<tasks>>

\* parseNameAndIntent resolved: customer_info is set on the captured convo
\* and the owner notification is awaited
SmsExtracted(t, parsed) ==
  /\ t.kind = "sms" /\ t.pc = "sms_extract"
  /\ Outcome(parsed)
  /\ LET info == parseNameAndIntent(t.body, parsed)
         convo == heap[t.convo]
     IN /\ heap' = [heap EXCEPT ![t.convo].customer_info = <<info>>]
        /\ tasks' = (tasks \ {t}) \cup
             {[t EXCEPT !.pc = "sms_details_owner", !.info = info,
                        !.details = DetailsText(info, convo), !.text = convo.type]}
  /\ UNCHANGED <<conversations, sets, tracker, events, outputs, responses>>

SmsDetailsOwnerSend(t, ok) ==
  /\ t.kind = "sms" /\ t.pc = "sms_details_owner"
  /\ Outcome(ok)
  /\ IF ok
     THEN /\ sent' = Deliver(SmsMsg(TRADIE, "details_owner", t.text, t.info, t.details, NullTime))
          /\ tasks' = (tasks \ {t}) \cup
               {[t EXCEPT !.pc = "sms_details_insert", !.text = heap[t.convo].type]}
          /\ UNCHANGED conversations
     ELSE /\ Finally(t)
          /\ UNCHANGED sent
  /\ UNCHANGED <<heap, sets, tracker, events, messages, bookings, responses>>

\* the insert is inside its own try: whatever it does, the reply is set,
\* convo.step becomes 'scheduling' and the reply is sent
SmsDetailsInsert(t, result) ==
  /\ t.kind = "sms" /\ t.pc = "sms_details_insert"
  /\ Outcome(result = "ok")
  /\ messages' = IF result = "ok"
                 THEN messages (+) SetToBag({MessageRow(t.from, t.text, t.body, Undefined,
                                                          t.info, t.details)})
                 ELSE messages
  /\ heap' = [heap EXCEPT ![t.convo].step = "scheduling"]
  /\ tasks' = (tasks \ {t}) \cup {[t EXCEPT !.pc = "sms_reply", !.text = "ask_time"]}
  /\ UNCHANGED <<conversations, sets, tracker, events, sent, bookings, responses>>

\* whatever the completion did, a time is taken from it
MutUsableTimeAlways(reply) == TRUE

\* if (proposedTime) after the completion: its text, trimmed, is not empty
UsableTime(reply) == reply = "reply"

\* the completion asked to extract a call time: its text becomes
\* proposedTime; empty or rejected, the reschedule completion is awaited
SmsTimeCompletion(t, reply) ==
  /\ t.kind = "sms" /\ t.pc = "sms_time_gpt"
  /\ Outcome(reply = "reply")
  /\ IF ~UsableTime(reply)
     THEN /\ Goto(t, "sms_resched_gpt")
          /\ UNCHANGED conversations
     ELSE IF heap[t.convo].customer_info # <<>>
     THEN /\ tasks' = (tasks \ {t}) \cup
               {[t EXCEPT !.pc = "sms_booking_owner",
                          !.time = [src |-> "completion", minutes |-> 0],
                          !.info = heap[t.convo].customer_info[1]]}
          /\ UNCHANGED conversations
     ELSE Finally(t)
  /\ UNCHANGED <<heap, sets, tracker, events, outputs, responses>>

SmsBookingOwnerSend(t, ok) ==
  /\ t.kind = "sms" /\ t.pc = "sms_booking_owner"
  /\ Outcome(ok)
  /\ IF ok /\ heap[t.convo].customer_info # <<>>
     THEN /\ sent' = Deliver(SmsMsg(TRADIE, "booking_owner", "", t.info, NoDetails, t.time))
          /\ tasks' = (tasks \ {t}) \cup
               {[t EXCEPT !.pc = "sms_booking_insert",
                          !.info = heap[t.convo].customer_info[1]]}
          /\ UNCHANGED <<conversations, heap>>
     ELSE IF ok
     THEN \* convo.customer_info.name throws inside the try of the insert
          /\ sent' = Deliver(SmsMsg(TRADIE, "booking_owner", "", t.info, NoDetails, t.time))
          /\ heap' = [heap EXCEPT ![t.convo].step = "done"]
          /\ tasks' = (tasks \ {t}) \cup {[t EXCEPT !.pc = "sms_reply", !.text = "confirmed"]}
          /\ UNCHANGED conversations
     ELSE /\ Finally(t)
          /\ UNCHANGED <<sent, heap>>
  /\ UNCHANGED <<sets, tracker, events, messages, bookings, responses>>

\* a row of the bookings table
BookingRow(from, info, time) ==
  [from_number |-> from, customer_name |-> info.name, intent |-> info.intent,
   details |-> info.description, proposed_time |-> time]

SmsBookingInsert(t, result) ==
  /\ t.kind = "sms" /\ t.pc = "sms_booking_insert"
  /\ Outcome(result = "ok")
  /\ bookings' = IF result = "ok"
                 THEN bookings (+) SetToBag({BookingRow(t.from, t.info, t.time)})
                 ELSE bookings
  /\ heap' = [heap EXCEPT ![t.convo].step = "done"]
  /\ tasks' = (tasks \ {t}) \cup {[t EXCEPT !.pc = "sms_reply", !.text = "confirmed"]}
  /\ UNCHANGED <<conversations, sets, tracker, events, sent, messages, responses>>

SmsReschedCompletion(t, reply) ==
  /\ t.kind = "sms" /\ t.pc = "sms_resched_gpt"
  /\ Outcome(reply = "reply")
  /\ IF reply = "reply"
     THEN /\ tasks' = (tasks \ {t}) \cup {[t EXCEPT !.pc = "sms_reply", !.text = "reschedule"]}
          /\ UNCHANGED conversations
     ELSE Finally(t)
  /\ UNCHANGED <<heap, sets, tracker, events, outputs, responses>>

\* await client.messages.create({ body: reply, to: from }), then finally
SmsReplySend(t, ok) ==
  /\ t.kind = "sms" /\ t.pc = "sms_reply"
  /\ Outcome(ok)
  /\ sent' = IF ok THEN Deliver(SmsMsg(t.from, "sms_reply", t.text, t.info, NoDetails, t.time))
             ELSE sent
  /\ Finally(t)
  /\ UNCHANGED <<heap, sets, tracker, events, messages, bookings, responses>>

Bodies == {<<"l", "e", "a", "k">>, <<"2", "p", "m", " ", "o", "k">>,
           <<"n", "o", " ", "i", "d", "e", "a">>, <<" ">>}
Replies == {"reply", "empty", "throw"}
InsertResults == {"ok", "error", "throw"}

\* ------------------------------------------------------ specification
\* the awaits of the busy / no-answer branch of /call-status
CallStatusSteps ==
  \/ \E t \in tasks, ok \in BOOLEAN : CallStatusOwnerSend(t, ok)
  \/ \E t \in tasks, reply \in Replies : CallStatusCompletion(t, reply)
  \/ \E t \in tasks, ok \in BOOLEAN : CallStatusCallerSend(t, ok)

\* the grace timer firing, and the awaits of its callback
TimerSteps ==
  \/ \E t \in tasks : TimerFire(t)
  \/ \E t \in tasks, ok \in BOOLEAN : TimerOwnerSend(t, ok)
  \/ \E t \in tasks, reply \in Replies : TimerCompletion(t, reply)
  \/ \E t \in tasks, ok \in BOOLEAN : TimerCallerSend(t, ok)

\* the awaits of /voicemail
VoicemailSteps ==
  \/ \E t \in tasks, text \in Transcripts \cup {""} : VoicemailTranscribed(t, text)
  \/ \E t \in tasks, ok \in BOOLEAN : VoicemailOwnerSend(t, ok)
  \/ \E t \in tasks, result \in InsertResults : VoicemailInsert(t, result)
  \/ \E t \in tasks, reply \in Replies : VoicemailCompletion(t, reply)
  \/ \E t \in tasks, ok \in BOOLEAN : VoicemailCallerSend(t, ok)

\* Every webhook may arrive at any time, with any input.
Next ==
  \/ \E r \in RawFroms, st \in CallStatuses, c \in CallSids, u \in RecordingUrls :
       CallStatusRoute(r, st, c, u)
  \/ CallStatusSteps
  \/ TimerSteps
  \/ \E r \in RawFroms, c \in CallSids, rs \in RecordingSids : VoicemailRoute(r, c, rs)
  \/ VoicemailSteps
  \/ \E r \in RawFroms, b \in Bodies, now \in Nows : SmsRoute(r, b, now)

Spec == Init /\ [][Next]_vars

\* ------------------------------------------------------------ properties
RECURSIVE SumCopies(_, _)
SumCopies(B, S) ==
  IF S = {} THEN 0
  ELSE LET m == CHOOSE x \in S : TRUE
       IN CopiesIn(m, B) + SumCopies(B, S \ {m})

\* how many messages of a kind were sent on behalf of call c
Count(B, kind, c) ==
  SumCopies(B, {m \in BagToSet(B) : m.kind = kind /\ m.CallSid = c})

\* the conversation stored for a number, EmptyConvo when there is none
Stored(from) ==
  IF conversations[from] = 0 THEN EmptyConvo ELSE heap[conversations[from]]

Mobile == formatPhone(RawMobile)

\* C1: for every call identifier the missed-call follow-up SMS to the
\* caller is sent at most once, whatever call-status and voicemail events
\* arrive for it and in whatever order.
C1_FollowupAtMostOnce ==
  \A c \in CallSids : Count(sent, "missed_followup", c) <= 1

\* ---- re-delivery of call-status webhooks
\* the status the platform reports, and reports again, for each call
RedeliveredStatus(c) == IF c = "CA1" THEN "busy" ELSE "completed"

\* Only call-status webhooks without a recording arrive, and two of them
\* for one call carry the same status.
NextRedelivery ==
  \/ \E c \in CallSids : CallStatusRoute(RawMobile, RedeliveredStatus(c), c, "")
  \/ CallStatusSteps
  \/ TimerSteps

SpecRedelivery == Init /\ [][NextRedelivery]_vars

TimersOf(c) == {t \in tasks : t.kind = "timer" /\ t.CallSid = c}

\* C2: a call-status webhook delivered again with the same call identifier
\* and status schedules no second deferred action and sends the caller no
\* second follow-up message.
C2_RedeliveryIsAbsorbed ==
  \A c \in CallSids :
    /\ Cardinality(TimersOf(c)) <= 1
    /\ Count(sent, "missed_followup", c) < 2

\* ---- a voicemail webhook after the grace timer has fired
\* the callback of c's grace timer has notified the owner
TimerNotifiedOwner(c) == Count(sent, "missed_owner", c) >= 1

\* Calls complete without a recording; the voicemail webhook of a call
\* arrives only after the call's grace timer has notified the owner.
NextLateVoicemail ==
  \/ \E c \in CallSids : CallStatusRoute(RawMobile, "completed", c, "")
  \/ TimerSteps
  \/ \E c \in CallSids : TimerNotifiedOwner(c) /\ VoicemailRoute(RawMobile, c, "RE1")
  \/ VoicemailSteps

SpecLateVoicemail == Init /\ [][NextLateVoicemail]_vars

\* C3: once the no-voicemail deferred action of call c has fired and the
\* owner was notified of the missed call, a voicemail webhook arriving
\* afterwards for c sends the owner no second notification.
C3_NoSecondOwnerNotification ==
  \A c \in CallSids :
    TimerNotifiedOwner(c) => Count(sent, "voicemail_owner", c) = 0

\* ---- a voicemail webhook while the timer callback is suspended
TimerSuspended(c) ==
  \E t \in TimersOf(c) : t.pc \in {"t_owner", "t_gpt", "t_caller"}

\* Calls complete without a recording; the voicemail webhook of a call is
\* processed while the callback of the call's grace timer is between two
\* of its awaited steps.
NextRacingVoicemail ==
  \/ \E c \in CallSids : CallStatusRoute(RawMobile, "completed", c, "")
  \/ TimerSteps
  \/ \E c \in CallSids : TimerSuspended(c) /\ VoicemailRoute(RawMobile, c, "RE1")
  \/ VoicemailSteps

SpecRacingVoicemail == Init /\ [][NextRacingVoicemail]_vars

\* the callback of c's timer has marked c handled and stored the conversation
TimerEffects(c) == \E i \in DOMAIN sets : c \in sets[i]

\* the voicemail handler of c has stored the conversation or sent a message
VoicemailEffects(c) ==
  \/ \E t \in tasks : t.kind = "voicemail" /\ t.CallSid = c /\ t.pc # "vm_transcribe"
  \/ Count(sent, "voicemail_owner", c) + Count(sent, "voicemail_followup", c) > 0
  \/ \E r \in BagToSet(responses) :
       r.route = "voicemail" /\ r.CallSid = c /\ r.text # "No recording to process"

\* C4: when the voicemail webhook of call c and the firing of c's grace
\* timer interleave, at most one of the two sets of side effects takes
\* place, and the other side changes no state.
C4_OnlyOneSideActs ==
  \A c \in CallSids : ~(TimerEffects(c) /\ VoicemailEffects(c))

\* ---- the scripted conversation, one event after the other
\* texts a caller answers with
BodyDetails == <<"l", "e", "a", "k">>
BodyTime == <<"2", "p", "m", " ", "o", "k">>

\* no handler and no timer is still running
Quiet == tasks = {}

\* A missed call of the mobile caller, then an SMS with details, then an
\* SMS with a time; each event arrives when the one before is finished.
NextScript ==
  \/ /\ events = MaxEvents
     /\ \E st \in {"busy", "no-answer", "completed"}, c \in CallSids :
          CallStatusRoute(RawMobile, st, c, "")
  \/ /\ events = MaxEvents
     /\ \E c \in CallSids : VoicemailRoute(RawMobile, c, "RE1")
  \/ CallStatusSteps
  \/ TimerSteps
  \/ VoicemailSteps
  \/ /\ events = MaxEvents - 1 /\ Quiet
     /\ \E now \in Nows : SmsRoute(RawMobile, BodyDetails, now)
  \/ /\ events = MaxEvents - 2 /\ Quiet
     /\ \E now \in Nows : SmsRoute(RawMobile, BodyTime, now)

SpecScript == Init /\ [][NextScript]_vars

\* the three events were handled to the end and no collaborator failed
ScriptDone == events = MaxEvents - 3 /\ Quiet /\ failures = MaxFailures

\* the caller got a follow-up message for the missed call
FollowupSent ==
  \E m \in BagToSet(sent) : m.kind \in {"missed_followup", "voicemail_followup"}

\* C6: from an empty store, a missed call of caller X, then an SMS from X
\* with details, then an SMS from X with a parsable time end with X's
\* conversation at step done and exactly one booking.
C6_ScriptEndsInBooking ==
  (ScriptDone /\ FollowupSent) =>
    /\ Stored(Mobile).step = "done"
    /\ BagCardinality(bookings) = 1

\* ---- write-backs
\* the calls a conversation object has marked handled
HandledIn(convo) == IF convo.handledCalls = 0 THEN {} ELSE sets[convo.handledCalls]

\* C7: overlapping work for one number takes effect as if done one after
\* the other; in particular the conversation a grace-timer callback writes
\* back loses nothing that was stored since the timer was set: the fields
\* other handlers wrote and the calls they marked handled are still there.
C7_NoStaleWriteBack ==
  [][\A t \in tasks :
       (conversations[t.from] # 0 /\ TimerFire(t) /\ conversations'[t.from] # 0) =>
         LET old == heap[conversations[t.from]]
             new == heap'[conversations'[t.from]]
         IN /\ new.type = old.type
            /\ new.transcription = old.transcription
            /\ new.tradie_notified = old.tradie_notified
            /\ new.ai_followup_sent = old.ai_followup_sent
            /\ new.customer_info = old.customer_info
            /\ HandledIn(old) \subseteq sets'[new.handledCalls]]_vars

\* C8: a busy or no-answer call-status event for a call not handled yet
\* leaves the caller's conversation with step awaiting_details and origin
\* missed_call_no_voicemail and marks the call handled; the owner
\* notification and the caller SMS it goes on to send are one each.
C8_BusyAwaitsDetails ==
  [][\A t \in tasks' \ tasks :
       (t.kind = "call-status" /\ t.pc = "cs_owner") =>
         LET convo == heap'[conversations'[t.from]]
         IN /\ convo.step = "awaiting_details"
            /\ convo.type = "missed_call_no_voicemail"
            /\ t.CallSid \in sets'[convo.handledCalls]]_vars

\* ---- completed calls only
\* Every call-status webhook reports a completed call, with or without a
\* recording reference.
NextCompleted ==
  \/ \E c \in CallSids, u \in RecordingUrls : CallStatusRoute(RawMobile, "completed", c, u)
  \/ TimerSteps

SpecCompleted == Init /\ [][NextCompleted]_vars

\* C9: once a completed call-status event with a recording reference has
\* been processed for call c, no step of the call-status path sends a
\* missed-call SMS for c, and no grace timer of c is left to fire.
C9_NoFollowupAfterRecording ==
  [][\A c \in CallSids :
       c \in pendingVoicemails =>
         /\ Count(sent', "missed_followup", c) = Count(sent, "missed_followup", c)
         /\ \A t \in TimersOf(c) : TimerFire(t) => UNCHANGED <<store, sent>>]_vars

\* C10: when the voicemail webhook has transcribed a recording for caller
\* X, X's conversation has step awaiting_details, origin voicemail and the
\* transcription (or the placeholder), the call's grace-timer entry is
\* gone, and the owner notification it sends carries the transcription.
C10_VoicemailAwaitsDetails ==
  [][\A t \in tasks' \ tasks :
       /\ (t.kind = "voicemail" /\ t.pc = "vm_owner") =>
            LET convo == heap'[conversations'[t.from]]
            IN /\ convo.step = "awaiting_details"
               /\ convo.type = "voicemail"
               /\ convo.transcription = t.text
       /\ (t.kind = "voicemail" /\ t.pc = "vm_insert") =>
            \E m \in BagToSet(sent') :
              m.kind = "voicemail_owner" /\ m.CallSid = t.CallSid /\ m.text = t.text]_vars

\* ---- the SMS conversation after a missed call (src/backend/index.js)
\* In this revision /call-status stores step awaiting_details, which is
\* the step the /sms handler continues from.
MaxEventsIntro == 4

\* { step: 'awaiting_details', type: 'missed_call_no_voicemail' }
IntroConvo ==
  [EmptyConvo EXCEPT !.step = "awaiting_details", !.type = "missed_call_no_voicemail"]

\* conversations[from] = { step: 'awaiting_details', ... }
StoreIntro(from) ==
  /\ heap' = Append(heap, IntroConvo)
  /\ conversations' = StoreAt(from, Len(heap) + 1)

\* the guard of a branch of /call-status on the conversation read at entry
IntroDue(CallStatus, convo) ==
  IF CallStatus \in {"no-answer", "busy"}
  THEN convo.type # "voicemail" /\ convo.step # FollowupStep
  ELSE CallStatus = "completed" /\
       convo.step # FollowupStep /\ convo.step # "awaiting_details"

\* The synchronous part of /call-status up to the first await.
CallStatusIntroRoute(rawFrom, CallStatus, CallSid) ==
  /\ events > 0
  /\ events' = events - 1
  /\ UNCHANGED <<store, tracker, failures, outputs>>
  /\ LET from == formatPhone(rawFrom) IN
     IF from = <<>>
     THEN /\ responses' = Respond("call-status", CallSid, 400, "Missing caller number")
          /\ UNCHANGED tasks
     ELSE IF IntroDue(CallStatus, Stored(from))
     THEN /\ tasks' = tasks \cup
               {[Task(NewId, "call-status", "intro_caller", from, CallSid, 0)
                   EXCEPT !.text = CallStatus]}
          /\ UNCHANGED responses
     ELSE /\ responses' = Respond("call-status", CallSid, 200, "Call status processed")
          /\ UNCHANGED tasks

\* await client.messages.create (caller); the completed branch stores the
\* conversation right after it
CallStatusIntroCallerSend(t, ok) ==
  /\ t.kind = "call-status" /\ t.pc = "intro_caller"
  /\ Outcome(ok)
  /\ IF ok
     THEN /\ sent' = Deliver(Msg(t.from, "missed_followup", t.CallSid, ""))
          /\ Goto(t, "intro_insert")
          /\ IF t.text = "completed" THEN StoreIntro(t.from)
             ELSE UNCHANGED <<conversations, heap>>
          /\ UNCHANGED responses
     ELSE /\ Finish(t)
          /\ responses' = Respond("call-status", t.CallSid, 200, "Call status processed")
          /\ UNCHANGED <<sent, conversations, heap>>
  /\ UNCHANGED <<sets, tracker, events, messages, bookings>>

\* await supabase.from('messages').insert; the busy / no-answer branch
\* stores the conversation right after it
CallStatusIntroInsert(t, result) ==
  /\ t.kind = "call-status" /\ t.pc = "intro_insert"
  /\ Outcome(result = "ok")
  /\ messages' = IF result = "ok"
                 THEN messages (+) SetToBag({MessageRow(t.from, "missed_call_no_voicemail",
                                                          <<>>, Undefined, NoInfo, NoDetails)})
                 ELSE messages
  /\ IF result = "throw"
     THEN /\ Finish(t)
          /\ responses' = Respond("call-status", t.CallSid, 200, "Call status processed")
          /\ UNCHANGED <<conversations, heap>>
     ELSE /\ Goto(t, "intro_owner")
          /\ IF t.text # "completed" THEN StoreIntro(t.from)
             ELSE UNCHANGED <<conversations, heap>>
          /\ UNCHANGED responses
  /\ UNCHANGED <<sets, tracker, events, sent, bookings>>

\* await client.messages.create (owner), then the final response
CallStatusIntroOwnerSend(t, ok) ==
  /\ t.kind = "call-status" /\ t.pc = "intro_owner"
  /\ Outcome(ok)
  /\ sent' = IF ok THEN Deliver(Msg(TRADIE, "missed_owner", t.CallSid, "")) ELSE sent
  /\ Finish(t)
  /\ responses' = Respond("call-status", t.CallSid, 200, "Call status processed")
  /\ UNCHANGED <<store, tracker, events, messages, bookings>>

CallStatusIntroSteps ==
  \/ \E t \in tasks, ok \in BOOLEAN : CallStatusIntroCallerSend(t, ok)
  \/ \E t \in tasks, result \in InsertResults : CallStatusIntroInsert(t, result)
  \/ \E t \in tasks, ok \in BOOLEAN : CallStatusIntroOwnerSend(t, ok)

\* the awaits of /sms
SmsSteps ==
  \/ \E t \in tasks, parsed \in BOOLEAN : SmsExtracted(t, parsed)
  \/ \E t \in tasks, ok \in BOOLEAN : SmsDetailsOwnerSend(t, ok)
  \/ \E t \in tasks, result \in InsertResults : SmsDetailsInsert(t, result)
  \/ \E t \in tasks, reply \in Replies : SmsTimeCompletion(t, reply)
  \/ \E t \in tasks, ok \in BOOLEAN : SmsBookingOwnerSend(t, ok)
  \/ \E t \in tasks, result \in InsertResults : SmsBookingInsert(t, result)
  \/ \E t \in tasks, reply \in Replies : SmsReschedCompletion(t, reply)
  \/ \E t \in tasks, ok \in BOOLEAN : SmsReplySend(t, ok)

InitIntro ==
  /\ conversations = [f \in Froms |-> 0]
  /\ heap = <<>>
  /\ sets = <<>>
  /\ pendingVoicemails = {}
  /\ pendingNoVoicemail = [c \in CallSids |-> 0]
  /\ tasks = {}
  /\ events = MaxEventsIntro
  /\ failures = MaxFailures
  /\ sent = EmptyBag
  /\ messages = EmptyBag
  /\ bookings = EmptyBag
  /\ responses = EmptyBag

\* One call of the mobile caller is missed, then SMS of the caller arrive
\* at any time, also while earlier ones are still being handled.
NextIntro ==
  \/ /\ events = MaxEventsIntro
     /\ \E r \in RawFroms, st \in {"busy", "completed"} :
          CallStatusIntroRoute(r, st, "CA1")
  \/ CallStatusIntroSteps
  \/ /\ events < MaxEventsIntro
     /\ \E b \in Bodies, now \in Nows : SmsRoute(RawMobile, b, now)
  \/ SmsSteps

SpecIntro == InitIntro /\ [][NextIntro]_vars

\* a conversation object reached step done
ReachedDone == \E i \in DOMAIN heap : heap[i].step = "done"

\* C5: for a conversation that reaches step done exactly one booking is
\* persisted, also when two SMS of the same number are handled with their
\* awaits interleaved while the step is scheduling.
C5_OneBookingPerConversation ==
  (ReachedDone /\ failures = MaxFailures) => BagCardinality(bookings) = 1

\* ---- the voicemail webhook delivered more than once
\* Only voicemail webhooks with a recording arrive, any number of them for
\* one call, also while an earlier one is still being handled.
NextVoicemailAgain ==
  \/ \E c \in CallSids : VoicemailRoute(RawMobile, c, "RE1")
  \/ VoicemailSteps

SpecVoicemailAgain == Init /\ [][NextVoicemailAgain]_vars

\* C11: for one voicemail the AI-composed follow-up SMS is sent to the
\* caller at most once, also when the webhook is delivered twice for the
\* call, one after the other or interleaved; and once a follow-up was sent
\* and its handler is finished, ai_followup_sent is true in the stored
\* conversation.
C11_VoicemailFollowupOnce ==
  \A c \in CallSids :
    /\ Count(sent, "voicemail_followup", c) <= 1
    /\ (Count(sent, "voicemail_followup", c) = 1 /\ Quiet) =>
         Stored(Mobile).ai_followup_sent = "true"

\* ---- the voicemail webhook without a recording
\* the response to a webhook without a recording
NoRecordingResponse(CallSid) ==
  [route |-> "voicemail", CallSid |-> CallSid, code |-> 200,
   text |-> "No recording to process"]

VoicemailIntroConvo(transcription) ==
  [EmptyConvo EXCEPT !.step = FollowupStep, !.transcription = transcription,
                     !.type = "voicemail", !.tradie_notified = "false"]

\* The synchronous part: validation, pendingVoicemails.delete, the skip
\* of a caller already followed up, then transcribeRecording is awaited.
VoicemailIntroRoute(rawFrom, CallSid, RecordingUrl) ==
  /\ events > 0
  /\ events' = events - 1
  /\ UNCHANGED <<store, pendingNoVoicemail, failures, outputs>>
  /\ LET from == formatPhone(rawFrom) IN
     IF from = <<>>
     THEN /\ responses' = Respond("voicemail", CallSid, 400, "Missing caller number")
          /\ UNCHANGED <<pendingVoicemails, tasks>>
     ELSE /\ pendingVoicemails' = pendingVoicemails \ {CallSid}
          /\ IF Stored(from).step = FollowupStep
             THEN /\ responses' = Respond("voicemail", CallSid, 200, "Voicemail already handled")
                  /\ UNCHANGED tasks
             ELSE /\ tasks' = tasks \cup
                       {[Task(NewId, "voicemail", "vi_transcribe", from, CallSid, 0)
                           EXCEPT !.text = RecordingUrl]}
                  /\ UNCHANGED responses

\* transcribeRecording resolved (text) or rejected (text = ""), as it
\* does at once when there is no recording URL; the conversation is stored
VoicemailIntroTranscribed(t, text) ==
  /\ t.kind = "voicemail" /\ t.pc = "vi_transcribe"
  /\ IF HasRecordingUrl(t.text) THEN Outcome(text # "")
     ELSE text = "" /\ UNCHANGED failures
  /\ LET transcription == IF text # "" THEN text ELSE TranscriptionUnavailable
     IN /\ heap' = Append(heap, VoicemailIntroConvo(transcription))
        /\ conversations' = StoreAt(t.from, Len(heap) + 1)
        /\ tasks' = (tasks \ {t}) \cup
                      {[t EXCEPT !.pc = "vi_owner", !.text = transcription]}
  /\ UNCHANGED <<sets, tracker, events, outputs, responses>>

VoicemailIntroOwnerSend(t, ok) ==
  /\ t.kind = "voicemail" /\ t.pc = "vi_owner"
  /\ Outcome(ok)
  /\ IF ok
     THEN /\ sent' = Deliver(Msg(TRADIE, "voicemail_owner", t.CallSid, t.text))
          /\ Goto(t, "vi_insert")
          /\ UNCHANGED responses
     ELSE /\ VoicemailFailed(t)
          /\ UNCHANGED sent
  /\ UNCHANGED <<store, tracker, events, messages, bookings>>

VoicemailIntroInsert(t, result) ==
  /\ t.kind = "voicemail" /\ t.pc = "vi_insert"
  /\ Outcome(result = "ok")
  /\ messages' = IF result = "ok"
                 THEN messages (+) SetToBag({MessageRow(t.from, "voicemail", <<>>,
                                                          t.text, NoInfo, NoDetails)})
                 ELSE messages
  /\ IF result = "throw"
     THEN VoicemailFailed(t)
     ELSE /\ Goto(t, "vi_gpt")
          /\ UNCHANGED responses
  /\ UNCHANGED <<store, tracker, events, sent, bookings>>

VoicemailIntroCompletion(t, reply) ==
  /\ t.kind = "voicemail" /\ t.pc = "vi_gpt"
  /\ Outcome(reply = "reply")
  /\ IF reply = "throw"
     THEN VoicemailFailed(t)
     ELSE IF reply = "reply" /\ isValidAUSMobile(t.from)
     THEN /\ Goto(t, "vi_caller")
          /\ UNCHANGED responses
     ELSE /\ Finish(t)
          /\ responses' = Respond("voicemail", t.CallSid, 200, "Voicemail processed with AI follow-up")
  /\ UNCHANGED <<store, tracker, events, outputs>>

VoicemailIntroCallerSend(t, ok) ==
  /\ t.kind = "voicemail" /\ t.pc = "vi_caller"
  /\ Outcome(ok)
  /\ IF ok
     THEN /\ sent' = Deliver(Msg(t.from, "voicemail_followup", t.CallSid, ""))
          /\ Finish(t)
          /\ responses' = Respond("voicemail", t.CallSid, 200, "Voicemail processed with AI follow-up")
     ELSE /\ VoicemailFailed(t)
          /\ UNCHANGED sent
  /\ UNCHANGED <<store, tracker, events, messages, bookings>>

VoicemailIntroSteps ==
  \/ \E t \in tasks, text \in Transcripts \cup {""} : VoicemailIntroTranscribed(t, text)
  \/ \E t \in tasks, ok \in BOOLEAN : VoicemailIntroOwnerSend(t, ok)
  \/ \E t \in tasks, result \in InsertResults : VoicemailIntroInsert(t, result)
  \/ \E t \in tasks, reply \in Replies : VoicemailIntroCompletion(t, reply)
  \/ \E t \in tasks, ok \in BOOLEAN : VoicemailIntroCallerSend(t, ok)

\* ---- a caller who calls again
\* A missed call of the mobile caller, two SMS of the caller, then a new
\* call event; each event arrives when the one before is finished.
NextReturn ==
  \/ /\ events = MaxEventsIntro
     /\ \E st \in {"busy", "no-answer", "completed"} :
          CallStatusIntroRoute(RawMobile, st, "CA1")
  \/ CallStatusIntroSteps
  \/ /\ events \in {MaxEventsIntro - 1, MaxEventsIntro - 2} /\ Quiet
     /\ \E b \in Bodies, now \in Nows : SmsRoute(RawMobile, b, now)
  \/ SmsSteps
  \/ /\ events = MaxEventsIntro - 3 /\ Quiet
     /\ \E st \in {"busy", "no-answer", "completed"} :
          CallStatusIntroRoute(RawMobile, st, "CA2")
  \/ /\ events = MaxEventsIntro - 3 /\ Quiet
     /\ \E u \in RecordingUrls : VoicemailIntroRoute(RawMobile, "CA2", u)
  \/ VoicemailIntroSteps

SpecReturn == InitIntro /\ [][NextReturn]_vars

\* C13: when a call event stores the conversation of a number whose
\* conversation is at step scheduling or done, the step becomes
\* awaiting_details and the customer_info of the previous conversation is
\* cleared.
C13_NewCallSupersedes ==
  [][(/\ Stored(Mobile).step \in {"scheduling", "done"}
      /\ conversations'[Mobile] # conversations[Mobile]) =>
        /\ Stored(Mobile)'.step = "awaiting_details"
        /\ Stored(Mobile)'.customer_info = <<>>]_vars

\* ---- the voicemail webhook before the call-status event
\* the voicemail webhook of call c was handled to its response
VoicemailAnswered(c) ==
  \E r \in BagToSet(responses) :
    r.route = "voicemail" /\ r.CallSid = c /\ r.code = 200

\* The voicemail webhook of a call arrives first; the completed event of
\* the call, which names no recording, arrives when the webhook is done.
NextVoicemailFirst ==
  \/ \E c \in CallSids : ~VoicemailAnswered(c) /\ VoicemailRoute(RawMobile, c, "RE1")
  \/ VoicemailSteps
  \/ \E c \in CallSids : VoicemailAnswered(c) /\ CallStatusRoute(RawMobile, "completed", c, "")
  \/ TimerSteps

SpecVoicemailFirst == Init /\ [][NextVoicemailFirst]_vars

\* C14: for a call on which a voicemail was left the caller gets the same
\* messages and the conversation the same origin whether the voicemail
\* webhook is handled before or after the completed event; handled first,
\* the later completed event without a recording causes no no-voicemail
\* follow-up to be sent to the caller.
C14_OrderDoesNotMatter ==
  \A c \in CallSids :
    VoicemailAnswered(c) => Count(sent, "missed_followup", c) = 0

\* ---- /sms, step by step
\* C15: an inbound SMS from a number with no conversation, or with one at
\* step new, is handled as at step awaiting_details: the extraction of
\* customer_info from its text is started.
C15_NewIsAwaitingDetails ==
  [][\A b \in Bodies, now \in Nows :
       (/\ conversations[Mobile] = 0 \/ Stored(Mobile).step = "new"
        /\ trim(b) # <<>>
        /\ SmsRoute(RawMobile, b, now)) =>
         \E t \in tasks' \ tasks : t.kind = "sms" /\ t.pc = "sms_extract"]_vars

\* how many /sms requests were accepted
SmsAccepted ==
  CopiesIn([route |-> "sms", CallSid |-> "", code |-> 200,
            text |-> "<Response></Response>"], responses)

\* the messages of a kind sent by /sms
SmsSent(kind) == {m \in BagToSet(sent) : m.kind = kind /\ m.CallSid = ""}

\* the missed call and n SMS after it were handled to the end, the SMS
\* one after the other, and no collaborator failed
AfterSms(n) ==
  /\ events = MaxEventsIntro - (n + 1)
  /\ SmsAccepted = n
  /\ Quiet
  /\ failures = MaxFailures

\* C16: an inbound SMS received at step awaiting_details stores the
\* extraction result as customer_info, sends the owner one notification
\* with name, intent and details, persists one message record, sends the
\* caller one reply asking for a callback time, and leaves the step at
\* scheduling.
C16_DetailsToScheduling ==
  AfterSms(1) =>
    /\ Stored(Mobile).step = "scheduling"
    /\ Stored(Mobile).customer_info = <<ExtractedInfo>>
    /\ Count(sent, "details_owner", "") = 1
    /\ \A m \in SmsSent("details_owner") :
         /\ m.to = TRADIE /\ m.info = ExtractedInfo
         /\ m.details = DetailsText(ExtractedInfo, Stored(Mobile))
    /\ SumCopies(messages, {row \in BagToSet(messages) :
                              row.customer_name = ExtractedInfo.name}) = 1
    /\ Count(sent, "sms_reply", "") = 1
    /\ \A m \in SmsSent("sms_reply") : m.to = Mobile /\ m.text = "ask_time"
    /\ bookings = EmptyBag

C16_Witness == AfterSms(1) /\ Stored(Mobile).step = "scheduling"

\* parseTime accepts the text (whatever the clock says)
Parsable(text) == \A now \in Nows : parseTime(text, now) # NullTime

\* the rows of the bookings table whose time parseTime produced
ParsedBookings == {row \in BagToSet(bookings) : row.proposed_time.src = "parseTime"}

\* C17: an inbound SMS received at step scheduling whose text parseTime
\* accepts produces one owner notification with the customer details and
\* the time, one booking whose proposed_time is the parsed instant (14:00
\* for a text naming 2pm), step done, and a confirmation reply to the
\* caller that carries the time.
C17_TimeConfirmsBooking ==
  /\ \A t \in tasks :
       (/\ t.kind = "sms" /\ t.pc = "sms_reply"
        /\ SmsAccepted = 2 /\ failures = MaxFailures
        /\ Parsable(t.body)) =>
         /\ t.text = "confirmed"
         /\ t.time.src = "parseTime"
         /\ t.body = BodyTime => t.time.minutes % MinutesPerDay = 14 * 60
         /\ heap[t.convo].step = "done"
         /\ bookings = SetToBag({BookingRow(Mobile, ExtractedInfo, t.time)})
         /\ Count(sent, "booking_owner", "") = 1
         /\ \A m \in SmsSent("booking_owner") :
              m.to = TRADIE /\ m.info = ExtractedInfo /\ m.time = t.time
  /\ (AfterSms(2) /\ ParsedBookings # {}) =>
       /\ Stored(Mobile).step = "done"
       /\ BagCardinality(bookings) = 1
       /\ \E m \in SmsSent("sms_reply") :
            /\ m.text = "confirmed" /\ m.to = Mobile
            /\ CopiesIn(m, sent) = 1
            /\ \A row \in ParsedBookings : m.time = row.proposed_time

C17_Witness ==
  /\ AfterSms(2)
  /\ \E row \in ParsedBookings : row.proposed_time.minutes % MinutesPerDay = 14 * 60
  /\ Stored(Mobile).step = "done"

\* the caller was sent the reply that asks for another time
Rescheduled ==
  \E m \in SmsSent("sms_reply") : m.text = "reschedule" /\ m.to = Mobile

\* the handler is past the point where neither parseTime nor the
\* completion gave a time
NoTimeFound(t) ==
  /\ t.kind = "sms"
  /\ t.pc = "sms_resched_gpt" \/ (t.pc = "sms_reply" /\ t.text = "reschedule")

C19_DoneRestarts ==
  [][\A b \in Bodies, now \in Nows :
       (/\ Stored(Mobile).step = "done"
        /\ trim(b) # <<>>
        /\ SmsRoute(RawMobile, b, now)) =>
         /\ Stored(Mobile)'.step = "awaiting_details"
         /\ bookings' = bookings]_vars

\* ---- a caller whose number is no valid mobile number
\* A missed call from a number that formatPhone turns into +61412, then
\* SMS from that number, one after the other.
NextShortCaller ==
  \/ /\ events = MaxEventsIntro
     /\ \E st \in {"busy", "completed"} : CallStatusIntroRoute(RawShort, st, "CA1")
  \/ CallStatusIntroSteps
  \/ /\ events < MaxEventsIntro /\ Quiet
     /\ \E b \in Bodies, now \in Nows : SmsRoute(RawShort, b, now)
  \/ SmsSteps

SpecShortCaller == InitIntro /\ [][NextShortCaller]_vars

\* the kinds of message that go to the caller
CallerKinds == {"missed_followup", "voicemail_followup", "sms_reply"}

\* C20: no SMS is ever sent to a caller number that fails
\* isValidAUSMobile, whichever handler would send it.
C20_OnlyValidCallers ==
  \A m \in BagToSet(sent) : m.kind \in CallerKinds => isValidAUSMobile(m.to)

\* ---- requests that lack the caller number or the text
\* a body with nothing but white space
Blank(Body) == \A i \in 1..Len(Body) : Body[i] \in Whitespace

\* this step answers the request with one client-error response and does
\* nothing else
Rejected(route, CallSid) ==
  /\ \E r \in BagToSet(responses') :
       /\ r.route = route /\ r.CallSid = CallSid
       /\ r.code \in 400..499
       /\ responses' = responses (+) SetToBag({r})
  /\ UNCHANGED <<store, tracker, tasks, outputs>>

\* C21: a call-status, voicemail or SMS request without a caller number,
\* and an SMS whose body is empty, is answered with a client error; no
\* message is sent and neither the conversations nor the pending-call
\* tracker change.
C21_MissingDataRejected ==
  [][/\ \A st \in CallStatuses, c \in CallSids, u \in RecordingUrls :
          CallStatusRoute(RawMissing, st, c, u) => Rejected("call-status", c)
     /\ \A c \in CallSids, rs \in RecordingSids :
          VoicemailRoute(RawMissing, c, rs) => Rejected("voicemail", c)
     /\ \A r \in RawFroms, b \in Bodies, now \in Nows :
          ((r = RawMissing \/ Blank(b)) /\ SmsRoute(r, b, now)) => Rejected("sms", "")]_vars

\* an SMS and a call-status request were rejected while a grace timer is
\* pending
C21_Witness ==
  /\ \E r \in BagToSet(responses) : r.route = "sms" /\ r.code = 400
  /\ \E r \in BagToSet(responses) : r.route = "call-status" /\ r.code = 400
  /\ \E c \in CallSids : pendingNoVoicemail[c] # 0

\* ---- collaborator failures inside /sms
\* the handler t is still running after this step, about to send the
\* caller the reply of a conversation that moved on to step
GoesOnToReply(t, step) ==
  \E u \in tasks' :
    /\ u.id = t.id /\ u.pc = "sms_reply"
    /\ heap'[u.convo].step = step

\* C22: when the owner notification or the insert fails while an inbound
\* SMS is handled, the handler is not aborted: the step advances
\* (awaiting_details to scheduling, scheduling to done) and the handler
\* goes on to send the caller the reply.
C22_SmsFailuresDoNotAbort ==
  [][\A t \in tasks :
       /\ (\/ SmsDetailsOwnerSend(t, FALSE)
           \/ \E result \in {"error", "throw"} : SmsDetailsInsert(t, result))
            => GoesOnToReply(t, "scheduling")
       /\ (\/ SmsBookingOwnerSend(t, FALSE)
           \/ \E result \in {"error", "throw"} : SmsBookingInsert(t, result))
            => GoesOnToReply(t, "done")]_vars

\* ---- a transcription that fails
\* the owner notification of a voicemail whose transcription failed
UnavailableNotice(c) == Msg(TRADIE, "voicemail_owner", c, TranscriptionUnavailable)

\* C23: when transcribeRecording rejects, /voicemail goes on with the
\* placeholder '[Unavailable]': the conversation is stored with type
\* voicemail and the placeholder as transcription, and the handler goes on
\* to notify the owner, whose notification quotes the placeholder.
C23_TranscriptionFailureGoesOn ==
  [][\A t \in tasks :
       /\ VoicemailTranscribed(t, "") =>
            /\ Stored(t.from)'.type = "voicemail"
            /\ Stored(t.from)'.transcription = TranscriptionUnavailable
            /\ \E u \in tasks' :
                 /\ u.id = t.id /\ u.pc = "vm_owner"
                 /\ u.text = TranscriptionUnavailable
       /\ (t.text = TranscriptionUnavailable /\ VoicemailOwnerSend(t, TRUE)) =>
            CopiesIn(UnavailableNotice(t.CallSid), sent') =
              CopiesIn(UnavailableNotice(t.CallSid), sent) + 1]_vars

\* the owner was told of a voicemail whose transcription failed
C23_Witness ==
  /\ \E c \in CallSids : BagIn(UnavailableNotice(c), sent)
  /\ Stored(Mobile).type = "voicemail"
  /\ Stored(Mobile).transcription = TranscriptionUnavailable

\* ---- the life of a pendingNoVoicemail entry
\* the timeout of call c is still to fire, or its callback is running
TimerAlive(c) ==
  \E t \in tasks : t.kind = "timer" /\ t.id = pendingNoVoicemail[c]

\* C24: an entry of pendingNoVoicemail is removed when its timer's
\* callback has run, whatever the sends and the completion inside the
\* callback did: an entry is there only while its timer is armed or its
\* callback is running.
C24_EntryGoesWithItsTimer ==
  \A c \in CallSids : pendingNoVoicemail[c] # 0 => TimerAlive(c)

\* ---- the response and the work
\* the handlers of the three webhooks (the grace timer is no request)
RequestKinds == {"call-status", "voicemail", "sms"}

\* the request that started handler t was given a success response
Acknowledged(t) ==
  \E r \in BagToSet(responses) :
    r.route = t.kind /\ r.CallSid = t.CallSid /\ r.code = 200

\* C25: each webhook handler sends its success response before any
\* transcription, completion, send or insert: a handler that is waiting
\* for one of them has already answered its request.
C25_AcknowledgedBeforeWork ==
  \A t \in tasks : t.kind \in RequestKinds => Acknowledged(t)

\* ---- two callers
Callers == {RawMobile, RawOther}

\* the identifier of the call of caller r: every call has its own
CallOf(r) == IF r = RawMobile THEN "CA1" ELSE "CA2"

\* a webhook that names the caller r: a missed or completed call, a
\* voicemail with a recording, or an SMS
WebhookOf(r) ==
  \/ \E st \in {"busy", "completed"}, u \in RecordingUrls :
       CallStatusRoute(r, st, CallOf(r), u)
  \/ VoicemailRoute(r, CallOf(r), "RE1")
  \/ SmsRoute(r, BodyDetails, CHOOSE now \in Nows : TRUE)

\* Webhooks of two callers arrive in any order.
NextTwoCallers ==
  \/ \E r \in Callers : WebhookOf(r)
  \/ CallStatusSteps
  \/ TimerSteps
  \/ VoicemailSteps

SpecTwoCallers == Init /\ [][NextTwoCallers]_vars

\* one step of the suspended handler or timer t
StepOf(t) ==
  \/ \E ok \in BOOLEAN :
       \/ CallStatusOwnerSend(t, ok) \/ CallStatusCallerSend(t, ok)
       \/ TimerOwnerSend(t, ok) \/ TimerCallerSend(t, ok)
       \/ VoicemailOwnerSend(t, ok) \/ VoicemailCallerSend(t, ok)
  \/ \E reply \in Replies :
       \/ CallStatusCompletion(t, reply) \/ TimerCompletion(t, reply)
       \/ VoicemailCompletion(t, reply)
  \/ TimerFire(t)
  \/ \E text \in Transcripts \cup {""} : VoicemailTranscribed(t, text)
  \/ \E result \in InsertResults : VoicemailInsert(t, result)

\* this step handles an event of the number X: a webhook that names X, or
\* a step of a handler or timer started for X
ActsFor(X) ==
  \/ \E r \in Callers : formatPhone(r) = X /\ WebhookOf(r)
  \/ \E t \in tasks : t.from = X /\ StepOf(t)

\* the conversation of Y with the calls it holds as handled
StateOf(Y) ==
  [convo |-> Stored(Y),
   handled |-> IF Stored(Y).handledCalls = 0 THEN {} ELSE sets[Stored(Y).handledCalls]]

\* what was sent to Y
SentTo(Y) == {<<m, CopiesIn(m, sent)>> : m \in {x \in BagToSet(sent) : x.to = Y}}

\* C26: a step that handles an event of the number X (call-status, timer,
\* voicemail or SMS) leaves the conversation of every other number Y as it
\* was and sends nothing to Y, however the handlers of X and Y interleave.
C26_OtherNumbersUntouched ==
  [][\A X \in Froms : ActsFor(X) =>
       \A Y \in Froms \ {X} :
         /\ StateOf(Y)' = StateOf(Y)
         /\ SentTo(Y)' = SentTo(Y)]_vars

\* both callers have a conversation and were sent a follow-up
C26_Witness ==
  \A r \in Callers :
    /\ conversations[formatPhone(r)] # 0
    /\ SentTo(formatPhone(r)) # {}

\* ---- what a stored conversation looks like
\* the steps /sms knows
SmsStepNames == {"new", "awaiting_details", "scheduling", "done"}

\* C27: the step of every stored conversation is one of new,
\* awaiting_details, scheduling, done.
C27_StepIsKnown ==
  \A f \in Froms : conversations[f] # 0 => Stored(f).step \in SmsStepNames

\* ---- a caller number that is no mobile number, later revision
\* Webhooks of a caller with a mobile number and of one whose number
\* formatPhone turns into +61412.
NextMalformed ==
  \/ \E r \in {RawMobile, RawShort} : WebhookOf(r)
  \/ CallStatusSteps
  \/ TimerSteps
  \/ VoicemailSteps

SpecMalformed == Init /\ [][NextMalformed]_vars

\* C28: every key of the conversation table is a number that passes
\* isValidAUSMobile; no conversation is stored under a malformed number.
C28_KeysAreValidMobiles ==
  \A f \in Froms : conversations[f] # 0 => isValidAUSMobile(f)

\* C29: a stored conversation carries a transcription only if its type
\* is voicemail; one of type missed_call_no_voicemail has none.
C29_TranscriptionOnlyForVoicemail ==
  \A f \in Froms :
    (conversations[f] # 0 /\ Stored(f).transcription # Undefined)
      => Stored(f).type = "voicemail"

\* a voicemail conversation that a later missed call went over
C29_Witness ==
  /\ Stored(Mobile).transcription \in Transcripts
  /\ Stored(Mobile).type = "voicemail"
  /\ Stored(Mobile).step = FollowupStep

\* ---- the grace timer against the busy / no-answer branch
\* a conversation as its fields and the calls it holds as handled,
\* whichever objects hold them
View(convo, handled) ==
  [convo |-> [convo EXCEPT !.handledCalls = 0], handled |-> handled]

\* the calls the conversation stored for from holds as handled
HandledOf(from) ==
  IF Stored(from).handledCalls = 0 THEN {} ELSE sets[Stored(from).handledCalls]

\* what the busy / no-answer branch stores for call c of from, from the
\* conversation stored now
BusyView(from, c) ==
  View(SpreadFollowup(Stored(from)), HandledOf(from) \cup {c})

\* C30: when the grace timer of a completed call without recording fires
\* and no voicemail was reported, it does what a busy event for that call
\* would do from the same store: the conversation stored, the calls held as
\* handled, the owner notification and the caller message are the same.
C30_TimerActsLikeBusy ==
  [][\A t \in tasks :
       /\ (~Has(pendingVoicemails, t.CallSid) /\ TimerFire(t)) =>
            View(Stored(t.from), HandledOf(t.from))' = BusyView(t.from, t.CallSid)
       /\ TimerOwnerSend(t, TRUE) =>
            sent' = Deliver(Msg(TRADIE, "missed_owner", t.CallSid, ""))
       /\ TimerCallerSend(t, TRUE) =>
            sent' = Deliver(Msg(t.from, "missed_followup", t.CallSid, ""))]_vars

\* ---------------------------------------------------- POST /send-sms
\* The onboarding request: the phone number is formatted and validated,
\* then three messages are sent to it one after the other.
SendSmsRoute(phone) ==
  /\ events > 0
  /\ events' = events - 1
  /\ UNCHANGED <<store, tracker, failures, outputs>>
  /\ IF phone = <<>>
     THEN /\ responses' = Respond("send-sms", "", 400, "Phone number required")
          /\ UNCHANGED tasks
     ELSE IF ~isValidAUSMobile(formatPhone(phone))
     THEN /\ responses' = Respond("send-sms", "", 400, "Invalid Australian mobile number")
          /\ UNCHANGED tasks
     ELSE /\ tasks' = tasks \cup
               {Task(NewId, "send-sms", "onboarding_1", formatPhone(phone), "", 0)}
          /\ UNCHANGED responses

\* the pc after each of the three sends
AfterOnboarding(pc) ==
  CASE pc = "onboarding_1" -> "onboarding_2"
    [] pc = "onboarding_2" -> "onboarding_3"
    [] OTHER -> "end"

\* await client.messages.create({ ..., to: formattedPhone }), three times;
\* a rejection is answered 500
SendSmsSend(t, ok) ==
  /\ t.kind = "send-sms"
  /\ Outcome(ok)
  /\ IF ~ok
     THEN /\ Finish(t)
          /\ responses' = Respond("send-sms", "", 500, "Failed to send SMS")
          /\ UNCHANGED sent
     ELSE /\ sent' = Deliver(Msg(t.from, t.pc, "", ""))
          /\ IF AfterOnboarding(t.pc) = "end"
             THEN /\ Finish(t)
                  /\ responses' = Respond("send-sms", "", 200, "success")
             ELSE /\ Goto(t, AfterOnboarding(t.pc))
                  /\ UNCHANGED responses
  /\ UNCHANGED <<store, tracker, events, messages, bookings>>

\* Onboarding requests arrive one after the other.
NextOnboarding ==
  \/ Quiet /\ \E phone \in RawPhones : SendSmsRoute(phone)
  \/ \E t \in tasks, ok \in BOOLEAN : SendSmsSend(t, ok)

SpecOnboarding == Init /\ [][NextOnboarding]_vars

\* the request is taken on for the number to
TakenOnFor(to) ==
  \E t \in tasks' \ tasks : t.kind = "send-sms" /\ t.from = to

\* C31: raw phone values that denote the same subscriber (national form
\* with the leading 0, 61, +61, the subscriber digits alone, with or
\* without separators) are formatted to the same number: each of them is
\* onboarded as the number the national form gives.
C31_SameSubscriberSameNumber ==
  [][\A phone \in SameSubscriber :
       SendSmsRoute(phone) =>
         /\ formatPhone(phone) = formatPhone(RawMobile)
         /\ TakenOnFor(formatPhone(RawMobile))]_vars

\* p is +61 followed by exactly nine decimal digits
Plus61AndNineDigits(p) ==
  /\ Len(p) = 3 + 9
  /\ SubSeq(p, 1, 3) = <<"+", "6", "1">>
  /\ SelectSeq(SubSeq(p, 4, Len(p)), IsDigit) = SubSeq(p, 4, Len(p))

\* the request is refused because of its number
RefusedAsInvalid ==
  responses' = Respond("send-sms", "", 400, "Invalid Australian mobile number")

\* C32: isValidAUSMobile accepts a number exactly when it is +61 followed
\* by exactly nine decimal digits: an onboarding request is taken on for
\* such a number and refused for every other (too short, too long, another
\* prefix, a character that is no digit).
C32_ValidIsPlus61AndNineDigits ==
  [][\A phone \in RawPhones \ {RawMissing} :
       SendSmsRoute(phone) =>
         /\ isValidAUSMobile(formatPhone(phone)) <=> Plus61AndNineDigits(formatPhone(phone))
         /\ TakenOnFor(formatPhone(phone)) <=> Plus61AndNineDigits(formatPhone(phone))
         /\ RefusedAsInvalid <=> ~Plus61AndNineDigits(formatPhone(phone))]_vars

\* one request was refused for its number after another was served
C32_Witness ==
  /\ \E r \in BagToSet(responses) : r.text = "Invalid Australian mobile number"
  /\ \E m \in BagToSet(sent) : m.kind = "onboarding_3" /\ Plus61AndNineDigits(m.to)

\* ---- the texts parseTime is given
TextTwo == <<"2">>
TextHalfPastTwo == <<"2", ":", "3", "0", "p", "m">>
TextNoIdea == <<"n", "o", " ", "i", "d", "e", "a">>

\* what a caller may answer when asked for a time
TimeTexts ==
  {TextTwo, TextHalfPastTwo, TextNoIdea, BodyTime,
   <<"1", "2", "a", "m">>,
   <<"1", "2", "p", "m">>,
   <<"9", "a", "m">>,
   <<"7">>,
   <<"8">>,
   <<"1", "1">>,
   <<"1", "2">>,
   <<"1", " ", "P", "M">>,
   <<"3", " ", "o", "r", " ", "4", "p", "m">>,
   <<"1", "3">>,
   <<"0">>,
   <<"1", "0", ":", "4", "5">>,
   <<"5", ":", "1", "5", " ", "a", "m">>,
   <<"a", "t", " ", "2">>,
   <<"p", "m">>}

\* clock readings, among them 14:00:00 and half a minute later
TimeNows == Nows \cup {[minutes |-> 840, seconds |-> 0], [minutes |-> 840, seconds |-> 30]}

\* A missed call, the SMS with the details, then the SMS with the time.
NextTimes ==
  \/ /\ events = MaxEventsIntro
     /\ CallStatusIntroRoute(RawMobile, "busy", "CA1")
  \/ CallStatusIntroSteps
  \/ /\ events = MaxEventsIntro - 1 /\ Quiet
     /\ \E now \in TimeNows : SmsRoute(RawMobile, BodyDetails, now)
  \/ /\ events = MaxEventsIntro - 2 /\ Quiet
     /\ \E text \in TimeTexts, now \in TimeNows : SmsRoute(RawMobile, text, now)
  \/ SmsSteps

SpecTimes == InitIntro /\ [][NextTimes]_vars

\* the handler this step starts
Started == tasks' \ tasks

\* the SMS text arrives at clock reading now for a conversation that is
\* at scheduling with its customer_info
TimeSms(text, now) ==
  /\ Stored(Mobile).step = "scheduling"
  /\ Stored(Mobile).customer_info # <<>>
  /\ SmsRoute(RawMobile, text, now)

\* the minute of the reference day the text names, after normalization
NamedMinute(text) ==
  LET m == TimeMatch(toLowerCase(text))
  IN NormalHour(m.hour, m.ampm) * 60 + m.minutes

\* C33: an instant parseTime returns lies at the normalized hour and
\* minute of the reference day when that is not before the clock reading,
\* and exactly one day later otherwise; it is never earlier than the clock
\* reading ("2" at 09:00 gives 14:00 the same day, at 15:00 the next day).
C33_NeverInThePast ==
  [][\A text \in TimeTexts, now \in TimeNows :
       TimeSms(text, now) =>
         \A t \in Started :
           t.time # NullTime =>
             LET d == NamedMinute(text)
                 clock == now.minutes * 60 + now.seconds
             IN /\ t.time.minutes * 60 >= clock
                /\ d * 60 >= clock => t.time.minutes = d
                /\ d * 60 < clock => t.time.minutes = d + MinutesPerDay
                /\ (text = TextTwo /\ now.minutes = 540) => t.time.minutes = 14 * 60
                /\ (text = TextTwo /\ now.minutes = 900) =>
                     t.time.minutes = 14 * 60 + MinutesPerDay]_vars

\* the booking for "2" sent at 15:00 is at 14:00 of the next day
C33_Witness ==
  \E row \in BagToSet(bookings) :
    /\ row.proposed_time.src = "parseTime"
    /\ row.proposed_time.minutes = 14 * 60 + MinutesPerDay

\* the lower-cased text holds one or two digits, with or without :MM and
\* am or pm after them: that is, it holds a digit
HasTimePattern(text) == \E i \in 1..Len(text) : toLowerCase(text)[i] \in Digits

TextThreeOrFour == <<"3", " ", "o", "r", " ", "4", "p", "m">>
TextAtTwo == <<"a", "t", " ", "2">>

\* the time of day of a proposed time, in minutes
TimeOfDay(time) == time.minutes % MinutesPerDay

WrittenHour(text) == TimeMatch(toLowerCase(text)).hour
WrittenAmPm(text) == TimeMatch(toLowerCase(text)).ampm
WrittenMinutes(text) == TimeMatch(toLowerCase(text)).minutes

\* C35: the hour parseTime uses: with pm, 12 is added unless the hour is
\* 12 or more; with am, 12 becomes 0 and the other hours stay; without am
\* or pm, the hours 1 to 7 are shifted by 12 and the hours 8 to 12 stay.
C35_HourNormalization ==
  [][\A text \in TimeTexts, now \in TimeNows :
       (HasTimePattern(text) /\ TimeSms(text, now)) =>
         \A t \in Started :
           LET h == WrittenHour(text)
               hour == (TimeOfDay(t.time) - WrittenMinutes(text)) \div 60
           IN /\ (WrittenAmPm(text) = "pm" /\ h < 12) => hour = h + 12
              /\ (WrittenAmPm(text) = "pm" /\ h >= 12) => hour = h
              /\ (WrittenAmPm(text) = "am" /\ h = 12) => hour = 0
              /\ (WrittenAmPm(text) = "am" /\ h # 12) => hour = h
              /\ (WrittenAmPm(text) = "" /\ h \in 1..7) => hour = h + 12
              /\ (WrittenAmPm(text) = "" /\ h \in 8..12) => hour = h]_vars

\* a booking at 19:00: "7" without am or pm
C35_Witness ==
  \E row \in BagToSet(bookings) :
    /\ row.proposed_time.src = "parseTime"
    /\ TimeOfDay(row.proposed_time) = 19 * 60

\* ---- answers of the model that are JSON without the fields
\* JSON.parse('{}'): an object with no name, intent or description
NoFieldsInfo == [name |-> Undefined, intent |-> Undefined, description |-> Undefined]

\* answers JSON.parse accepts that carry no field
Unstructured == {"{}", "null"}

\* parseNameAndIntent resolved with what JSON.parse made of the answer:
\* for '{}' the handler goes on with an object without fields; for 'null',
\* convo.customer_info = null is stored and info.description throws into
\* the catch of the handler, which goes to finally
SmsExtractedUnstructured(t, raw) ==
  /\ t.kind = "sms" /\ t.pc = "sms_extract"
  /\ Outcome(FALSE)
  /\ IF raw = "null"
     THEN /\ heap' = [heap EXCEPT ![t.convo].customer_info = <<>>]
          /\ Finally(t)
     ELSE /\ heap' = [heap EXCEPT ![t.convo].customer_info = <<NoFieldsInfo>>]
          /\ tasks' = (tasks \ {t}) \cup
               {[t EXCEPT !.pc = "sms_details_owner", !.info = NoFieldsInfo,
                          !.details = DetailsText(NoFieldsInfo, heap[t.convo]),
                          !.text = heap[t.convo].type]}
          /\ UNCHANGED conversations
  /\ UNCHANGED <<sets, tracker, events, outputs, responses>>

\* the SMS flow of SpecIntro, with the model also answering JSON that has
\* no fields
NextAnswers ==
  \/ NextIntro
  \/ \E t \in tasks, raw \in Unstructured : SmsExtractedUnstructured(t, raw)

SpecAnswers == InitIntro /\ [][NextAnswers]_vars

\* the extraction of handler t ends without the structured fields: the
\* call was rejected or its answer is no JSON (both take the catch of
\* parseNameAndIntent), or the answer is JSON without the fields
ExtractionWithoutFields(t) ==
  \/ SmsExtracted(t, FALSE)
  \/ \E raw \in Unstructured : SmsExtractedUnstructured(t, raw)

\* C36: whenever the model call errors or its answer cannot be parsed into
\* the structured fields, the extraction yields exactly { name: "Customer",
\* intent: "other", description: text } and the SMS handler goes on with
\* that value.
C36_ExtractionNeverFails ==
  [][\A t \in tasks :
       ExtractionWithoutFields(t) =>
         /\ heap'[t.convo].customer_info = <<FallbackInfo(t.body)>>
         /\ \E u \in tasks' :
              /\ u.id = t.id /\ u.pc = "sms_details_owner"
              /\ u.info = FallbackInfo(t.body)]_vars

\* ---- the first revision of src/unnamed/part_000: /voicemail stores a
\* conversation at step awaiting_details
\* { step: 'awaiting_details', type: 'missed_call_no_voicemail',
\*   tradie_notified: false }
MissedDetailsConvo ==
  [EmptyConvo EXCEPT !.step = "awaiting_details", !.type = "missed_call_no_voicemail",
                     !.tradie_notified = "false"]

\* { step: 'awaiting_details', transcription, type: 'voicemail' }
VoicemailDetailsConvo(transcription) ==
  [EmptyConvo EXCEPT !.step = "awaiting_details", !.transcription = transcription,
                     !.type = "voicemail"]

\* The synchronous part of /call-status: the skip of a caller whose
\* voicemail is stored, pendingVoicemails, and the branch that awaits.
CallStatusDetailsRoute(rawFrom, callStatus, recordingUrl, callSid) ==
  /\ events > 0
  /\ events' = events - 1
  /\ UNCHANGED <<store, pendingNoVoicemail, failures, outputs>>
  /\ LET from == formatPhone(rawFrom)
         convo == Stored(from)
         intro == \/ callStatus \in {"no-answer", "busy"}
                  \/ /\ callStatus = "completed" /\ ~HasRecordingUrl(recordingUrl)
                     /\ callSid \notin pendingVoicemails
     IN
     IF from = <<>>
     THEN /\ responses' = Respond("call-status", callSid, 400, "Missing caller number")
          /\ UNCHANGED <<pendingVoicemails, tasks>>
     ELSE IF convo.type = "voicemail" /\ Truthy(convo.transcription)
     THEN /\ responses' = Respond("call-status", callSid, 200, "Voicemail already handled")
          /\ UNCHANGED <<pendingVoicemails, tasks>>
     ELSE IF intro
     THEN /\ tasks' = tasks \cup
               {[Task(NewId, "call-status", "cd_caller", from, callSid, 0)
                   EXCEPT !.text = callStatus]}
          /\ UNCHANGED <<pendingVoicemails, responses>>
     ELSE /\ pendingVoicemails' =
               IF callStatus = "completed" /\ HasRecordingUrl(recordingUrl)
               THEN pendingVoicemails \cup {callSid} ELSE pendingVoicemails
          /\ responses' = Respond("call-status", callSid, 200, "Call status processed")
          /\ UNCHANGED tasks

\* catch (err), then res.status(200).send('Call status processed')
CallStatusDetailsDone(t) ==
  /\ Finish(t)
  /\ responses' = Respond("call-status", t.CallSid, 200, "Call status processed")

\* await client.messages.create (caller), then the conversation is stored
CallStatusDetailsCallerSend(t, ok) ==
  /\ t.kind = "call-status" /\ t.pc = "cd_caller"
  /\ Outcome(ok)
  /\ IF ok
     THEN /\ sent' = Deliver(Msg(t.from, "missed_followup", t.CallSid, ""))
          /\ heap' = Append(heap, MissedDetailsConvo)
          /\ conversations' = StoreAt(t.from, Len(heap) + 1)
          /\ Goto(t, "cd_owner")
          /\ UNCHANGED responses
     ELSE /\ CallStatusDetailsDone(t)
          /\ UNCHANGED <<sent, conversations, heap>>
  /\ UNCHANGED <<sets, tracker, events, messages, bookings>>

\* await client.messages.create (owner)
CallStatusDetailsOwnerSend(t, ok) ==
  /\ t.kind = "call-status" /\ t.pc = "cd_owner"
  /\ Outcome(ok)
  /\ IF ok
     THEN /\ sent' = Deliver(Msg(TRADIE, "missed_owner", t.CallSid, ""))
          /\ Goto(t, "cd_insert")
          /\ UNCHANGED responses
     ELSE /\ CallStatusDetailsDone(t)
          /\ UNCHANGED sent
  /\ UNCHANGED <<store, tracker, events, messages, bookings>>

\* await supabase.from('messages').insert, then the final response
CallStatusDetailsInsert(t, result) ==
  /\ t.kind = "call-status" /\ t.pc = "cd_insert"
  /\ Outcome(result = "ok")
  /\ messages' = IF result = "ok"
                 THEN messages (+) SetToBag({MessageRow(t.from, "missed_call_no_voicemail",
                                                          <<>>, Undefined, NoInfo, NoDetails)})
                 ELSE messages
  /\ CallStatusDetailsDone(t)
  /\ UNCHANGED <<store, tracker, events, sent, bookings>>

CallStatusDetailsSteps ==
  \/ \E t \in tasks, ok \in BOOLEAN : CallStatusDetailsCallerSend(t, ok)
  \/ \E t \in tasks, ok \in BOOLEAN : CallStatusDetailsOwnerSend(t, ok)
  \/ \E t \in tasks, result \in InsertResults : CallStatusDetailsInsert(t, result)

\* The synchronous part of /voicemail: validation and
\* pendingVoicemails.delete, then transcribeRecording is awaited.
VoicemailDetailsRoute(rawFrom, callSid, RecordingUrl) ==
  /\ events > 0
  /\ events' = events - 1
  /\ UNCHANGED <<store, pendingNoVoicemail, failures, outputs>>
  /\ LET from == formatPhone(rawFrom) IN
     IF from = <<>>
     THEN /\ responses' = Respond("voicemail", callSid, 400, "Missing caller number")
          /\ UNCHANGED <<pendingVoicemails, tasks>>
     ELSE /\ pendingVoicemails' = pendingVoicemails \ {callSid}
          /\ tasks' = tasks \cup
               {[Task(NewId, "voicemail", "vd_transcribe", from, callSid, 0)
                   EXCEPT !.text = RecordingUrl]}
          /\ UNCHANGED responses

\* transcribeRecording resolved (text) or rejected (text = ""), as it
\* does at once when there is no recording URL; the conversation is
\* stored and the awaits of the try follow, the same as in
\* src/backend/index.js
VoicemailDetailsTranscribed(t, text) ==
  /\ t.kind = "voicemail" /\ t.pc = "vd_transcribe"
  /\ IF HasRecordingUrl(t.text) THEN Outcome(text # "")
     ELSE text = "" /\ UNCHANGED failures
  /\ LET transcription == IF text # "" THEN text ELSE TranscriptionUnavailable
     IN /\ heap' = Append(heap, VoicemailDetailsConvo(transcription))
        /\ conversations' = StoreAt(t.from, Len(heap) + 1)
        /\ tasks' = (tasks \ {t}) \cup
                      {[t EXCEPT !.pc = "vi_owner", !.text = transcription]}
  /\ UNCHANGED <<sets, tracker, events, outputs, responses>>

VoicemailDetailsSteps ==
  \/ \E t \in tasks, text \in Transcripts \cup {""} : VoicemailDetailsTranscribed(t, text)
  \/ \E t \in tasks, ok \in BOOLEAN : VoicemailIntroOwnerSend(t, ok)
  \/ \E t \in tasks, result \in InsertResults : VoicemailIntroInsert(t, result)
  \/ \E t \in tasks, reply \in Replies : VoicemailIntroCompletion(t, reply)
  \/ \E t \in tasks, ok \in BOOLEAN : VoicemailIntroCallerSend(t, ok)

\* the events of the mobile caller: a call event or a voicemail webhook
\* of call CA1, an SMS with details, a call event or a voicemail webhook
\* of call CA2, an SMS with details; handlers run interleaved
NextDetails ==
  \/ \E c \in CallSids :
       /\ events = (IF c = "CA1" THEN MaxEventsIntro ELSE MaxEventsIntro - 2)
       /\ \/ \E st \in {"busy", "completed"}, u \in RecordingUrls :
               CallStatusDetailsRoute(RawMobile, st, u, c)
          \/ \E u \in RecordingUrls : VoicemailDetailsRoute(RawMobile, c, u)
  \/ CallStatusDetailsSteps
  \/ VoicemailDetailsSteps
  \/ /\ events \in {MaxEventsIntro - 1, MaxEventsIntro - 3}
     /\ \E now \in Nows : SmsRoute(RawMobile, BodyDetails, now)
  \/ SmsSteps

SpecDetails == InitIntro /\ [][NextDetails]_vars

\* the transcriptions /voicemail has stored
StoredTranscriptions ==
  {heap[i].transcription : i \in {j \in DOMAIN heap : heap[j].type = "voicemail"}}

\* the details text d belongs to a conversation of the given type and to
\* the extracted fields info
DetailsAsClaimed(d, type, info) ==
  /\ d.description = info.description
  /\ IF type = "voicemail" THEN d.voicemail \in StoredTranscriptions
     ELSE d.voicemail = ""

\* the rows of the messages table the /sms handler wrote
SmsRows == {row \in BagToSet(messages) : row.content # <<>>}

C38_HandledStaysHandled ==
  [][\A from \in Froms : HandledOf(from) \subseteq HandledOf(from)']_vars

\* customer_info is an object with a name, an intent and a description
HasCustomerInfo(convo) ==
  /\ convo.customer_info # <<>>
  /\ convo.customer_info[1].name # Undefined
  /\ convo.customer_info[1].intent # Undefined
  /\ convo.customer_info[1].description # Undefined

\* C39: in every reachable state the conversation stored for a number at
\* step scheduling or done has customer_info with name, intent and
\* description, however the handlers of the events of the number are
\* interleaved.
C39_SchedulingHasCustomerInfo ==
  \A from \in Froms :
    Stored(from).step \in {"scheduling", "done"} => HasCustomerInfo(Stored(from))

\* C40: once ai_followup_sent is true in the conversation stored for a
\* number, no event stores a conversation for the number in which it is
\* not: no call event, no timer and no SMS handler writing back its
\* conversation; a later voicemail of the number then sends no AI
\* follow-up.
C40_FollowupSentStays ==
  [][\A from \in Froms :
       Stored(from).ai_followup_sent = "true" =>
         Stored(from)'.ai_followup_sent = "true"]_vars

====
